---- MODULE Spec2Model ----
(***************************************************************************)
(* State-machine model of the drawing components of the repository:        *)
(*   "A"  the first DrawingApp of src/app/page.tsx (lines 1-556)           *)
(*   "H"  the Home component of src/unnamed/part_004 (lines 290-968)       *)
(* Every event handler is one atomic action: the component re-renders      *)
(* between two events, so a handler reads the state left by the previous   *)
(* one and its setState calls are applied together.                        *)
(***************************************************************************)
EXTENDS Integers, Sequences, FiniteSets, TLC

VARIABLES
  app,          \* which component is mounted: "A", "B", "H" or "D"
  tool,         \* useState tool
  objects,      \* useState objects: the scene, a sequence of drawable objects
  history,      \* useState history: the undo stack, top = last element
  redoStack,    \* useState redoStack: top = first element
  selected,     \* useState selected: 0-based index or Null
  drawing,      \* useState drawing
  dragStart,    \* A: useState dragStart, <<>> (null) or <<p>>
  currentPath,  \* A: useState currentPath
  lineStart,    \* A: useState lineStart, <<>> (null) or <<p>>
  textInput,    \* A: useState textInput, a sequence of characters
  textPos,      \* A: useState textPos, <<>> (null) or <<p>>
  start,        \* H: useState start
  resizeHandle, \* H: useState resizeHandle: 0..3 or Null
  ctx,          \* H: the settings of the canvas' 2D drawing context
  lastOp,       \* history variable: the handler that ran last
  steps,        \* history variable: the number of handler calls so far
  gesture,      \* history variable: the scene at the last pointer-down
  log,          \* history variable: the appends, undos and redos so far
  appended      \* history variable: the objects appended, in order

vars == <<app, tool, objects, history, redoStack, selected, drawing, dragStart,
          currentPath, lineStart, textInput, textPos, start, resizeHandle, ctx,
          lastOp, steps, gesture, log, appended>>
progA == <<dragStart, currentPath, lineStart, textInput, textPos>>
progH == <<start, resizeHandle>>

(* ------------------------------ bounds --------------------------------- *)
\* the number of handler calls explored from the initial state
MaxSteps == 6
\* the number of pointer events explored in a resize gesture
MaxResizeSteps == 3

(* --------------------------- program values ---------------------------- *)
Null == -1
BrushSize == 5
BrushOpacity == 1
BrushColor == "#000000"
ShapeW == 100
ShapeH == 60
CanvasW == 200
CanvasH == 160

Pt(x, y) == [x |-> x, y |-> y]
PtsA == {Pt(75, 75), Pt(85, 85)}
ToolsA == {"pencil", "line", "select", "eraser", "text"}
ShapeVals == {"", "rectangle", "circle"}
TextInputs == {<<>>, <<" ">>, <<"a">>}

Undefined == [type |-> "undefined"]

(* ------------------------------ helpers -------------------------------- *)
Min2(a, b) == IF a <= b THEN a ELSE b
Max2(a, b) == IF a >= b THEN a ELSE b
Abs(a) == IF a >= 0 THEN a ELSE -a
MinOf(S) == CHOOSE m \in S : \A n \in S : m <= n
MaxOf(S) == CHOOSE m \in S : \A n \in S : m >= n
Xs(points) == {points[i].x : i \in 1..Len(points)}
Ys(points) == {points[i].y : i \in 1..Len(points)}
Front(s) == SubSeq(s, 1, Len(s) - 1)
Last(s) == s[Len(s)]
\* objs[i] of the source, i a 0-based index
At(objs, i) == objs[i + 1]
InRange(objs, i) == 0 <= i /\ i < Len(objs)

\* String.prototype.trim on a sequence of characters
RECURSIVE TrimLeft(_)
TrimLeft(s) == IF s # <<>> /\ Head(s) = " " THEN TrimLeft(Tail(s)) ELSE s
RECURSIVE TrimRight(_)
TrimRight(s) == IF s # <<>> /\ Last(s) = " " THEN TrimRight(Front(s)) ELSE s
Trim(s) == TrimRight(TrimLeft(s))

\* Array.prototype.splice(i, 1) followed by splice(j, 0, removed), as
\* handleBack/handleFront do it: removing beyond the end removes nothing and
\* yields undefined, inserting beyond the end appends.
SpliceOut(objs, i) ==
  IF InRange(objs, i)
  THEN SubSeq(objs, 1, i) \o SubSeq(objs, i + 2, Len(objs))
  ELSE objs
SpliceIn(objs, j, o) ==
  LET k == Min2(Max2(j, 0), Len(objs))
  IN SubSeq(objs, 1, k) \o <<o>> \o SubSeq(objs, k + 1, Len(objs))
Removed(objs, i) == IF InRange(objs, i) THEN At(objs, i) ELSE Undefined
\* a faulty move: the element is put back where it was taken
MoveIndex_back(objs, i, j) == SpliceIn(SpliceOut(objs, i), i, Removed(objs, i))

MoveIndex(objs, i, j) == SpliceIn(SpliceOut(objs, i), j, Removed(objs, i))
\* a faulty filter: the last element is dropped, whatever the index
FilterOut_pop(objs, i) == IF objs = <<>> THEN objs ELSE Front(objs)

\* Array.prototype.filter((_, idx) => idx !== i)
FilterOut(objs, i) == SpliceOut(objs, i)

(* --------------------- page.tsx, first DrawingApp ---------------------- *)
PathObj(points, isEraser) ==
  [type |-> "path", points |-> points, size |-> BrushSize, color |-> BrushColor,
   opacity |-> BrushOpacity, isEraser |-> isEraser]
LineObj(p, q) ==
  [type |-> "line", points |-> <<p, q>>, size |-> BrushSize, color |-> BrushColor,
   opacity |-> BrushOpacity]
ShapeObjA(kind, x, y, w, h) ==
  [type |-> "shape", shape |-> kind, x |-> x, y |-> y, w |-> w, h |-> h,
   size |-> BrushSize, color |-> BrushColor, opacity |-> BrushOpacity]
TextObj(x, y, text) ==
  [type |-> "text", x |-> x, y |-> y, text |-> text, color |-> BrushColor,
   size |-> BrushSize, font |-> "sans-serif", opacity |-> BrushOpacity]

\* a faulty box: the height of a text leaves out the 12 px of padding
getBoundingBox_noPad(obj) ==
  CASE obj.type = "path" ->
         LET x == MinOf(Xs(obj.points))
             y == MinOf(Ys(obj.points))
         IN [x |-> x, y |-> y, w |-> MaxOf(Xs(obj.points)) - x,
             h |-> MaxOf(Ys(obj.points)) - y]
    [] obj.type = "line" ->
         [x |-> Min2(obj.points[1].x, obj.points[2].x),
          y |-> Min2(obj.points[1].y, obj.points[2].y),
          w |-> Abs(obj.points[2].x - obj.points[1].x),
          h |-> Abs(obj.points[2].y - obj.points[1].y)]
    [] obj.type = "shape" -> [x |-> obj.x, y |-> obj.y, w |-> obj.w, h |-> obj.h]
    [] obj.type = "text" ->
         [x |-> obj.x, y |-> obj.y - obj.size * 4,
          w |-> Len(obj.text) * (obj.size * 2 + 8), h |-> obj.size * 4]

getBoundingBox(obj) ==
  CASE obj.type = "path" ->
         LET x == MinOf(Xs(obj.points))
             y == MinOf(Ys(obj.points))
         IN [x |-> x, y |-> y, w |-> MaxOf(Xs(obj.points)) - x,
             h |-> MaxOf(Ys(obj.points)) - y]
    [] obj.type = "line" ->
         [x |-> Min2(obj.points[1].x, obj.points[2].x),
          y |-> Min2(obj.points[1].y, obj.points[2].y),
          w |-> Abs(obj.points[2].x - obj.points[1].x),
          h |-> Abs(obj.points[2].y - obj.points[1].y)]
    [] obj.type = "shape" -> [x |-> obj.x, y |-> obj.y, w |-> obj.w, h |-> obj.h]
    [] obj.type = "text" ->
         [x |-> obj.x, y |-> obj.y - obj.size * 4,
          w |-> Len(obj.text) * (obj.size * 2 + 8), h |-> obj.size * 4 + 12]

\* a faulty move: shapes are kept from leaving the canvas on the left and top
moveObject_clamped(obj, dx, dy) ==
  CASE obj.type = "path" ->
         [obj EXCEPT !.points =
            [i \in 1..Len(obj.points) |-> Pt(obj.points[i].x + dx, obj.points[i].y + dy)]]
    [] obj.type = "line" ->
         [obj EXCEPT !.points =
            <<Pt(obj.points[1].x + dx, obj.points[1].y + dy),
              Pt(obj.points[2].x + dx, obj.points[2].y + dy)>>]
    [] obj.type = "shape" ->
         [obj EXCEPT !.x = Max2(0, obj.x + dx), !.y = Max2(0, obj.y + dy)]
    [] obj.type = "text" -> [obj EXCEPT !.x = obj.x + dx, !.y = obj.y + dy]
    [] OTHER -> obj

moveObject(obj, dx, dy) ==
  CASE obj.type = "path" ->
         [obj EXCEPT !.points =
            [i \in 1..Len(obj.points) |-> Pt(obj.points[i].x + dx, obj.points[i].y + dy)]]
    [] obj.type = "line" ->
         [obj EXCEPT !.points =
            <<Pt(obj.points[1].x + dx, obj.points[1].y + dy),
              Pt(obj.points[2].x + dx, obj.points[2].y + dy)>>]
    [] obj.type = "shape" -> [obj EXCEPT !.x = obj.x + dx, !.y = obj.y + dy]
    [] obj.type = "text" -> [obj EXCEPT !.x = obj.x + dx, !.y = obj.y + dy]
    [] OTHER -> obj

\* the context settings drawObject strokes or fills an object with. The
\* component never sets globalCompositeOperation: it keeps the default of a
\* 2d context, "source-over".
drawObject(obj) ==
  [globalCompositeOperation |-> "source-over",
   globalAlpha |-> obj.opacity,
   style |-> IF obj.type = "path" /\ obj.isEraser THEN "#fff" ELSE obj.color]

\* the bounding-box test of handleMouseDown's select branch
HitBox(obj, p) ==
  LET box == getBoundingBox(obj)
  IN p.x >= box.x /\ p.x <= box.x + box.w /\ p.y >= box.y /\ p.y <= box.y + box.h
\* the loop of the select branch: the first hit from the last index down
TopHit(objs, p) ==
  LET hits == {i \in 0..(Len(objs) - 1) : HitBox(At(objs, i), p)}
  IN IF hits = {} THEN Null ELSE MaxOf(hits)

\* redraw (an effect of every objects change) dereferences every element: an
\* undefined element makes it throw, which unmounts the component
Crashed == \E i \in 1..Len(objects) : objects[i] = Undefined

saveHistory ==
  /\ history' = Append(history, objects)
  /\ redoStack' = <<>>

SetToolA(t) ==
  /\ app = "A" /\ ~Crashed
  /\ tool' = t
  /\ UNCHANGED <<app, objects, history, redoStack, selected, drawing, progA, progH>>

handleMouseDown(p) ==
  /\ app = "A" /\ ~Crashed
  /\ CASE tool = "select" ->
            LET i == TopHit(objects, p)
            IN /\ selected' = i
               /\ dragStart' = IF i # Null THEN <<p>> ELSE dragStart
               /\ UNCHANGED <<drawing, currentPath, lineStart, textInput, textPos>>
       [] tool \in {"pencil", "eraser"} ->
            /\ drawing' = TRUE
            /\ currentPath' = <<p>>
            /\ UNCHANGED <<selected, dragStart, lineStart, textInput, textPos>>
       [] tool = "line" ->
            /\ drawing' = TRUE
            /\ lineStart' = <<p>>
            /\ UNCHANGED <<selected, dragStart, currentPath, textInput, textPos>>
       [] tool = "text" ->
            /\ textPos' = <<p>>
            /\ textInput' = <<>>
            /\ UNCHANGED <<selected, dragStart, drawing, currentPath, lineStart>>
  /\ UNCHANGED <<app, tool, objects, history, redoStack, progH>>

\* a faulty move: the dragged object is moved in place, so that a snapshot
\* that is the live array moves with it
handleMouseMove_inPlace(p) ==
  /\ app = "A" /\ ~Crashed
  /\ CASE tool \in {"pencil", "eraser"} ->
            /\ currentPath' = IF drawing THEN Append(currentPath, p) ELSE currentPath
            /\ UNCHANGED <<objects, dragStart, history>>
       [] tool = "select" /\ selected # Null /\ dragStart # <<>> ->
            LET dx == p.x - dragStart[1].x
                dy == p.y - dragStart[1].y
            IN /\ objects' = [i \in 1..Len(objects) |->
                                IF i - 1 = selected
                                THEN moveObject(objects[i], dx, dy)
                                ELSE objects[i]]
               /\ history' = [i \in 1..Len(history) |->
                                IF history[i] = objects THEN objects' ELSE history[i]]
               /\ dragStart' = <<p>>
               /\ UNCHANGED currentPath
       [] OTHER -> UNCHANGED <<objects, dragStart, currentPath, history>>
  /\ UNCHANGED <<app, tool, redoStack, selected, drawing, lineStart,
                 textInput, textPos, progH>>

handleMouseMove(p) ==
  /\ app = "A" /\ ~Crashed
  /\ CASE tool \in {"pencil", "eraser"} ->
            /\ currentPath' = IF drawing THEN Append(currentPath, p) ELSE currentPath
            /\ UNCHANGED <<objects, dragStart>>
       [] tool = "select" /\ selected # Null /\ dragStart # <<>> ->
            LET dx == p.x - dragStart[1].x
                dy == p.y - dragStart[1].y
            IN /\ objects' = [i \in 1..Len(objects) |->
                                IF i - 1 = selected
                                THEN moveObject(objects[i], dx, dy)
                                ELSE objects[i]]
               /\ dragStart' = <<p>>
               /\ UNCHANGED currentPath
       [] OTHER -> UNCHANGED <<objects, dragStart, currentPath>>
  /\ UNCHANGED <<app, tool, history, redoStack, selected, drawing, lineStart,
                 textInput, textPos, progH>>

handleMouseUp(p) ==
  /\ app = "A" /\ ~Crashed
  /\ CASE tool \in {"pencil", "eraser"} ->
            /\ IF drawing /\ Len(currentPath) > 1
               THEN /\ saveHistory
                    /\ objects' = Append(objects, PathObj(currentPath, tool = "eraser"))
               ELSE UNCHANGED <<history, redoStack, objects>>
            /\ drawing' = FALSE
            /\ currentPath' = <<>>
            /\ UNCHANGED <<lineStart, dragStart>>
       [] tool = "line" ->
            /\ IF drawing /\ lineStart # <<>>
               THEN /\ saveHistory
                    /\ objects' = Append(objects, LineObj(lineStart[1], p))
               ELSE UNCHANGED <<history, redoStack, objects>>
            /\ drawing' = FALSE
            /\ lineStart' = <<>>
            /\ UNCHANGED <<currentPath, dragStart>>
       [] tool = "select" /\ selected # Null ->
            /\ saveHistory
            /\ dragStart' = <<>>
            /\ UNCHANGED <<objects, drawing, currentPath, lineStart>>
       [] OTHER ->
            UNCHANGED <<history, redoStack, objects, drawing, currentPath,
                        lineStart, dragStart>>
  /\ UNCHANGED <<app, tool, selected, textInput, textPos, progH>>

\* a faulty undo: the scene it replaces is not kept for redo
undo_dropScene ==
  /\ app = "A" /\ ~Crashed
  /\ IF Len(history) = 0
     THEN UNCHANGED <<redoStack, objects, history>>
     ELSE /\ UNCHANGED redoStack
          /\ objects' = Last(history)
          /\ history' = Front(history)
  /\ UNCHANGED <<app, tool, selected, drawing, progA, progH>>

undo ==
  /\ app = "A" /\ ~Crashed
  /\ IF Len(history) = 0
     THEN UNCHANGED <<redoStack, objects, history>>
     ELSE /\ redoStack' = <<objects>> \o redoStack
          /\ objects' = Last(history)
          /\ history' = Front(history)
  /\ UNCHANGED <<app, tool, selected, drawing, progA, progH>>

redo ==
  /\ app = "A" /\ ~Crashed
  /\ IF Len(redoStack) = 0
     THEN UNCHANGED <<redoStack, objects, history>>
     ELSE /\ history' = Append(history, objects)
          /\ objects' = Head(redoStack)
          /\ redoStack' = Tail(redoStack)
  /\ UNCHANGED <<app, tool, selected, drawing, progA, progH>>

handleShapeInsert(shapeVal) ==
  /\ app = "A" /\ ~Crashed
  /\ IF shapeVal = ""
     THEN UNCHANGED <<history, redoStack, objects>>
     ELSE /\ saveHistory
          /\ objects' = Append(objects,
               ShapeObjA(shapeVal, CanvasW \div 2 - ShapeW \div 2,
                         CanvasH \div 2 - ShapeH \div 2, ShapeW, ShapeH))
  /\ UNCHANGED <<app, tool, selected, drawing, progA, progH>>

handleDelete ==
  /\ app = "A" /\ ~Crashed
  /\ IF selected # Null
     THEN /\ saveHistory
          /\ objects' = FilterOut(objects, selected)
          /\ selected' = Null
     ELSE UNCHANGED <<history, redoStack, objects, selected>>
  /\ UNCHANGED <<app, tool, drawing, progA, progH>>

handleBack ==
  /\ app = "A" /\ ~Crashed
  /\ IF selected # Null /\ selected > 0
     THEN /\ saveHistory
          /\ objects' = MoveIndex(objects, selected, selected - 1)
          /\ selected' = selected - 1
     ELSE UNCHANGED <<history, redoStack, objects, selected>>
  /\ UNCHANGED <<app, tool, drawing, progA, progH>>

handleFront ==
  /\ app = "A" /\ ~Crashed
  /\ IF selected # Null /\ selected < Len(objects) - 1
     THEN /\ saveHistory
          /\ objects' = MoveIndex(objects, selected, selected + 1)
          /\ selected' = selected + 1
     ELSE UNCHANGED <<history, redoStack, objects, selected>>
  /\ UNCHANGED <<app, tool, drawing, progA, progH>>

\* onChange of the text form's input, shown while textPos is set and tool = text
SetTextInput(s) ==
  /\ app = "A" /\ ~Crashed
  /\ textPos # <<>> /\ tool = "text"
  /\ textInput' = s
  /\ UNCHANGED <<app, tool, objects, history, redoStack, selected, drawing,
                 dragStart, currentPath, lineStart, textPos, progH>>

\* a faulty submit: the text is tested without trim
handleTextSubmit_noTrim ==
  /\ app = "A" /\ ~Crashed
  /\ textPos # <<>> /\ tool = "text"
  /\ IF textInput # <<>> /\ textPos # <<>>
     THEN /\ saveHistory
          /\ objects' = Append(objects, TextObj(textPos[1].x, textPos[1].y, textInput))
     ELSE UNCHANGED <<history, redoStack, objects>>
  /\ textInput' = <<>>
  /\ textPos' = <<>>
  /\ UNCHANGED <<app, tool, selected, drawing, dragStart, currentPath, lineStart,
                 progH>>

handleTextSubmit ==
  /\ app = "A" /\ ~Crashed
  /\ textPos # <<>> /\ tool = "text"
  /\ IF Trim(textInput) # <<>> /\ textPos # <<>>
     THEN /\ saveHistory
          /\ objects' = Append(objects, TextObj(textPos[1].x, textPos[1].y, textInput))
     ELSE UNCHANGED <<history, redoStack, objects>>
  /\ textInput' = <<>>
  /\ textPos' = <<>>
  /\ UNCHANGED <<app, tool, selected, drawing, dragStart, currentPath, lineStart,
                 progH>>

(* ------------------- part_004, the Home component ---------------------- *)
PtsH == {Pt(50, 30), Pt(100, 60)}
ToolsH == {"pencil", "eraser", "select", "shape"}
ShapeType == "rectangle"
HandleSize == 10
MinSize == 10
EmptyObj == [type |-> "none"]

\* a faulty shape: width and height are exchanged
ShapeObjH_swapped(kind, x, y, w, h) ==
  [type |-> "shape", shape |-> kind, x |-> x, y |-> y, w |-> h, h |-> w,
   color |-> BrushColor, opacity |-> BrushOpacity]

ShapeObjH(kind, x, y, w, h) ==
  [type |-> "shape", shape |-> kind, x |-> x, y |-> y, w |-> w, h |-> h,
   color |-> BrushColor, opacity |-> BrushOpacity]

\* objects[selected]?.type === "shape"
IsShapeAt(objs, i) == InRange(objs, i) /\ At(objs, i).type = "shape"

\* newObjs[i] = o on a copy of the array; writing beyond the end leaves holes
SetAt(objs, i, o) ==
  IF InRange(objs, i)
  THEN [objs EXCEPT ![i + 1] = o]
  ELSE objs \o [k \in 1..(i - Len(objs)) |-> Undefined] \o <<o>>

\* the four corners of a shape, in handle order 0:tl 1:tr 2:bl 3:br
Corners(obj) ==
  <<Pt(obj.x, obj.y), Pt(obj.x + obj.w, obj.y), Pt(obj.x, obj.y + obj.h),
    Pt(obj.x + obj.w, obj.y + obj.h)>>
\* the first handle within handleSize of the pointer, or Null
HandleAt(obj, pt) ==
  LET near == {i \in 0..3 : /\ Abs(pt.x - Corners(obj)[i + 1].x) < HandleSize
                            /\ Abs(pt.y - Corners(obj)[i + 1].y) < HandleSize}
  IN IF near = {} THEN Null ELSE MinOf(near)

\* the hit test of handlePointerDown's select branch
Home_hit(obj, pt) ==
  CASE obj.type = "shape" ->
         /\ pt.x >= obj.x /\ pt.x <= obj.x + obj.w
         /\ pt.y >= obj.y /\ pt.y <= obj.y + obj.h
    [] obj.type = "path" ->
         /\ pt.x >= MinOf(Xs(obj.points)) /\ pt.x <= MaxOf(Xs(obj.points))
         /\ pt.y >= MinOf(Ys(obj.points)) /\ pt.y <= MaxOf(Ys(obj.points))
    [] OTHER -> FALSE
Home_topHit(objs, pt) ==
  LET hits == {i \in 0..(Len(objs) - 1) : Home_hit(At(objs, i), pt)}
  IN IF hits = {} THEN Null ELSE MaxOf(hits)

\* the switch of the resize branch
resizeSwitch(obj, handle, pt) ==
  CASE handle = 0 ->
         [obj EXCEPT !.w = obj.w + (obj.x - pt.x), !.h = obj.h + (obj.y - pt.y),
                     !.x = pt.x, !.y = pt.y]
    [] handle = 1 ->
         [obj EXCEPT !.w = pt.x - obj.x, !.h = obj.h + (obj.y - pt.y), !.y = pt.y]
    [] handle = 2 ->
         [obj EXCEPT !.w = obj.w + (obj.x - pt.x), !.x = pt.x, !.h = pt.y - obj.y]
    [] handle = 3 ->
         [obj EXCEPT !.w = pt.x - obj.x, !.h = pt.y - obj.y]
    [] OTHER -> obj

\* a faulty resize: the switch without the clamp
resizeCorner_noClamp(obj, handle, pt) == resizeSwitch(obj, handle, pt)

\* the resize branch's updater: the switch, then the clamp to MinSize
resizeCorner(obj, handle, pt) ==
  LET r == resizeSwitch(obj, handle, pt)
  IN [r EXCEPT !.w = Max2(MinSize, r.w), !.h = Max2(MinSize, r.h)]

\* the updater of the select branch of handlePointerMove
dragObject(obj, dx, dy) ==
  CASE obj.type = "shape" -> [obj EXCEPT !.x = obj.x + dx, !.y = obj.y + dy]
    [] obj.type = "path" ->
         [obj EXCEPT !.points =
            [i \in 1..Len(obj.points) |-> Pt(obj.points[i].x + dx, obj.points[i].y + dy)]]
    [] OTHER -> obj

\* a faulty growth: the new point replaces the last one
growLast_replace(objs, pt) ==
  IF objs # <<>> /\ Last(objs).type = "path"
  THEN [objs EXCEPT ![Len(objs)] =
          [Last(objs) EXCEPT !.points = Append(Front(Last(objs).points), pt)]]
  ELSE objs

\* the updater of the pencil/eraser branch of handlePointerMove
growLast(objs, pt) ==
  IF objs # <<>> /\ Last(objs).type = "path"
  THEN [objs EXCEPT ![Len(objs)] =
          [Last(objs) EXCEPT !.points = Append(Last(objs).points, pt)]]
  ELSE objs

\* a faulty push: the redo stack is not cleared
pushHistory_keepRedo(newObjs) ==
  /\ history' = Append(history, objects)
  /\ UNCHANGED redoStack
  /\ objects' = newObjs

pushHistory(newObjs) ==
  /\ history' = Append(history, objects)
  /\ redoStack' = <<>>
  /\ objects' = newObjs

SetToolH(t) ==
  /\ app = "H"
  /\ tool' = t
  /\ UNCHANGED <<app, objects, history, redoStack, selected, drawing, progA, progH>>

handlePointerDown(pt) ==
  /\ app = "H"
  /\ start' = pt
  /\ drawing' = TRUE
  /\ IF /\ tool = "select" /\ selected # Null /\ IsShapeAt(objects, selected)
        /\ HandleAt(At(objects, selected), pt) # Null
     THEN /\ resizeHandle' = HandleAt(At(objects, selected), pt)
          /\ UNCHANGED <<objects, history, redoStack, selected>>
     ELSE /\ CASE tool \in {"pencil", "eraser"} ->
                    /\ pushHistory(Append(objects, PathObj(<<pt>>, tool = "eraser")))
                    /\ selected' = Null
               [] tool = "select" ->
                    /\ selected' = Home_topHit(objects, pt)
                    /\ UNCHANGED <<objects, history, redoStack>>
               [] tool = "shape" ->
                    /\ pushHistory(Append(objects,
                         ShapeObjH(ShapeType, pt.x - ShapeW \div 2, pt.y - ShapeH \div 2,
                                   ShapeW, ShapeH)))
                    /\ selected' = Len(objects)
          /\ UNCHANGED resizeHandle
  /\ UNCHANGED <<app, tool, progA>>

\* a faulty move: every point of a stroke pushes a snapshot
handlePointerMove_pushEach(pt) ==
  /\ app = "H"
  /\ IF ~drawing
     THEN UNCHANGED <<objects, start, history, redoStack>>
     ELSE IF resizeHandle # Null /\ selected # Null /\ IsShapeAt(objects, selected)
     THEN /\ objects' = SetAt(objects, selected,
                              resizeCorner(At(objects, selected), resizeHandle, pt))
          /\ UNCHANGED <<start, history, redoStack>>
     ELSE CASE tool \in {"pencil", "eraser"} ->
                 /\ pushHistory(growLast(objects, pt))
                 /\ UNCHANGED start
            [] tool = "select" /\ selected # Null ->
                 /\ objects' = SetAt(objects, selected,
                      IF InRange(objects, selected)
                      THEN dragObject(At(objects, selected), pt.x - start.x, pt.y - start.y)
                      ELSE EmptyObj)
                 /\ start' = pt
                 /\ UNCHANGED <<history, redoStack>>
            [] OTHER -> UNCHANGED <<objects, start, history, redoStack>>
  /\ UNCHANGED <<app, tool, selected, drawing, resizeHandle, progA>>

handlePointerMove(pt) ==
  /\ app = "H"
  /\ IF ~drawing
     THEN UNCHANGED <<objects, start>>
     ELSE IF resizeHandle # Null /\ selected # Null /\ IsShapeAt(objects, selected)
     THEN /\ objects' = SetAt(objects, selected,
                              resizeCorner(At(objects, selected), resizeHandle, pt))
          /\ UNCHANGED start
     ELSE CASE tool \in {"pencil", "eraser"} ->
                 /\ objects' = growLast(objects, pt)
                 /\ UNCHANGED start
            [] tool = "select" /\ selected # Null ->
                 /\ objects' = SetAt(objects, selected,
                      IF InRange(objects, selected)
                      THEN dragObject(At(objects, selected), pt.x - start.x, pt.y - start.y)
                      ELSE EmptyObj)
                 /\ start' = pt
            [] OTHER -> UNCHANGED <<objects, start>>
  /\ UNCHANGED <<app, tool, history, redoStack, selected, drawing, resizeHandle, progA>>

\* the updater handlePointerMove hands to setObjects, built from the state of
\* the render the handler belongs to (drawing, resizeHandle, selected,
\* objects, tool, start) and applied to the array objs it is given
moveUpdater(objs, pt) ==
  IF ~drawing THEN objs
  ELSE IF resizeHandle # Null /\ selected # Null /\ IsShapeAt(objects, selected)
  THEN SetAt(objs, selected,
             IF InRange(objs, selected)
             THEN resizeCorner(At(objs, selected), resizeHandle, pt)
             ELSE EmptyObj)
  ELSE IF tool \in {"pencil", "eraser"} THEN growLast(objs, pt)
  ELSE IF tool = "select" /\ selected # Null
  THEN SetAt(objs, selected,
             IF InRange(objs, selected)
             THEN dragObject(At(objs, selected), pt.x - start.x, pt.y - start.y)
             ELSE EmptyObj)
  ELSE objs

\* two pointer-moves handled by the handler of one render: both read the
\* same state, their updaters run one after the other, the last setStart wins
handlePointerMoveTwice(p1, p2) ==
  /\ app = "H"
  /\ objects' = moveUpdater(moveUpdater(objects, p1), p2)
  /\ start' = IF /\ drawing
                 /\ ~(resizeHandle # Null /\ selected # Null /\ IsShapeAt(objects, selected))
                 /\ tool = "select" /\ selected # Null
              THEN p2 ELSE start
  /\ UNCHANGED <<app, tool, history, redoStack, selected, drawing, resizeHandle, progA>>

handlePointerUp ==
  /\ app = "H"
  /\ drawing' = FALSE
  /\ resizeHandle' = Null
  /\ UNCHANGED <<app, tool, objects, history, redoStack, selected, start, progA>>

\* a faulty undo: the top snapshot is restored but not popped
handleUndo_noPop ==
  /\ app = "H"
  /\ IF Len(history) = 0
     THEN UNCHANGED <<redoStack, objects, history, selected>>
     ELSE /\ redoStack' = <<objects>> \o redoStack
          /\ objects' = Last(history)
          /\ UNCHANGED history
          /\ selected' = Null
  /\ UNCHANGED <<app, tool, drawing, progA, progH>>

handleUndo ==
  /\ app = "H"
  /\ IF Len(history) = 0
     THEN UNCHANGED <<redoStack, objects, history, selected>>
     ELSE /\ redoStack' = <<objects>> \o redoStack
          /\ objects' = Last(history)
          /\ history' = Front(history)
          /\ selected' = Null
  /\ UNCHANGED <<app, tool, drawing, progA, progH>>

\* a faulty redo: the selection is cleared before the stack is looked at
handleRedo_clearFirst ==
  /\ app = "H"
  /\ selected' = Null
  /\ IF Len(redoStack) = 0
     THEN UNCHANGED <<redoStack, objects, history>>
     ELSE /\ history' = Append(history, objects)
          /\ objects' = Head(redoStack)
          /\ redoStack' = Tail(redoStack)
  /\ UNCHANGED <<app, tool, drawing, progA, progH>>

handleRedo ==
  /\ app = "H"
  /\ IF Len(redoStack) = 0
     THEN UNCHANGED <<redoStack, objects, history, selected>>
     ELSE /\ history' = Append(history, objects)
          /\ objects' = Head(redoStack)
          /\ redoStack' = Tail(redoStack)
          /\ selected' = Null
  /\ UNCHANGED <<app, tool, drawing, progA, progH>>

\* a faulty clear: the scene is emptied without a snapshot
handleClear_noPush ==
  /\ app = "H"
  /\ objects' = <<>>
  /\ redoStack' = <<>>
  /\ selected' = Null
  /\ UNCHANGED <<app, tool, drawing, progA, progH, history>>

handleClear ==
  /\ app = "H"
  /\ pushHistory(<<>>)
  /\ selected' = Null
  /\ UNCHANGED <<app, tool, drawing, progA, progH>>

\* a faulty delete: the selection is kept
Home_handleDelete_keepSel ==
  /\ app = "H"
  /\ IF selected = Null
     THEN UNCHANGED <<history, redoStack, objects>>
     ELSE pushHistory(FilterOut(objects, selected))
  /\ UNCHANGED <<app, tool, selected, drawing, progA, progH>>

Home_handleDelete ==
  /\ app = "H"
  /\ IF selected = Null
     THEN UNCHANGED <<history, redoStack, objects, selected>>
     ELSE /\ pushHistory(FilterOut(objects, selected))
          /\ selected' = Null
  /\ UNCHANGED <<app, tool, drawing, progA, progH>>

handleBringForward ==
  /\ app = "H"
  /\ IF selected = Null \/ selected = Len(objects) - 1
     THEN UNCHANGED <<history, redoStack, objects, selected>>
     ELSE /\ pushHistory(MoveIndex(objects, selected, selected + 1))
          /\ selected' = selected + 1
  /\ UNCHANGED <<app, tool, drawing, progA, progH>>

handleSendBackward ==
  /\ app = "H"
  /\ IF selected = Null \/ selected = 0
     THEN UNCHANGED <<history, redoStack, objects, selected>>
     ELSE /\ pushHistory(MoveIndex(objects, selected, selected - 1))
          /\ selected' = selected - 1
  /\ UNCHANGED <<app, tool, drawing, progA, progH>>

(* ------------------ part_004, the older DrawingApp --------------------- *)
(* "D", lines 1-289. It has no undo: history and redoStack stay empty. Its   *)
(* selectedIdx is the variable selected and its dragOffset is dragStart,     *)
(* <<>> (null) or <<offset>>.                                                *)
SizeD == 4
InsertW == 100
InsertH == 80
\* insertShape places the shape at 80 + Math.random() * 100 on both axes
InsertAt == {80, 120}
ToolsD == {"pencil", "eraser", "select"}
ShapeTypesD == {"rectangle", "circle"}
PtsD == {Pt(130, 120), Pt(150, 140), Pt(82, 82)}

DrawPath(points, isEraser) ==
  [type |-> "path", points |-> points,
   color |-> IF isEraser THEN "#fff" ELSE BrushColor,
   size |-> IF isEraser THEN SizeD + 6 ELSE SizeD, isEraser |-> isEraser]
ShapeObjD(kind, x, y) ==
  [type |-> "shape", shape |-> kind, x |-> x, y |-> y, w |-> InsertW, h |-> InsertH,
   color |-> BrushColor, size |-> SizeD]

\* (pos.x - cx)^2 / (w/2)^2 + (pos.y - cy)^2 / (h/2)^2 <= 1 with cx = x + w/2
\* and cy = y + h/2, both sides multiplied by w^2 * h^2 / 4 (w and h not 0).
\* A point outside the bounding box has one term above 1: it is decided first,
\* which keeps the products small.
InEllipse(obj, pos) ==
  LET X == 2 * pos.x - (2 * obj.x + obj.w)
      Y == 2 * pos.y - (2 * obj.y + obj.h)
  IN /\ Abs(X) <= Abs(obj.w) /\ Abs(Y) <= Abs(obj.h)
     /\ X * X * obj.h * obj.h + Y * Y * obj.w * obj.w
          <= obj.w * obj.w * obj.h * obj.h

\* the two tests of handleDown's forEach body
DrawingApp_hit(obj, pos) ==
  /\ obj.type = "shape"
  /\ \/ /\ obj.shape = "rectangle"
        /\ pos.x >= obj.x /\ pos.x <= obj.x + obj.w
        /\ pos.y >= obj.y /\ pos.y <= obj.y + obj.h
     \/ /\ obj.shape = "circle"
        /\ InEllipse(obj, pos)

\* a faulty search: the first hit is kept instead of the last
found_first(objs, pos) ==
  LET hits == {i \in 0..(Len(objs) - 1) : DrawingApp_hit(At(objs, i), pos)}
  IN IF hits = {} THEN Null ELSE MinOf(hits)

\* found after the forEach: every hit overwrites it, so the last hit stays
found(objs, pos) ==
  LET hits == {i \in 0..(Len(objs) - 1) : DrawingApp_hit(At(objs, i), pos)}
  IN IF hits = {} THEN Null ELSE MaxOf(hits)

SetToolD(t) ==
  /\ app = "D"
  /\ tool' = t
  /\ selected' = IF t \in {"pencil", "eraser"} THEN Null ELSE selected
  /\ UNCHANGED <<app, objects, history, redoStack, drawing, progA, progH>>

handleDown(pos) ==
  /\ app = "D"
  /\ CASE tool \in {"pencil", "eraser"} ->
            /\ drawing' = TRUE
            /\ currentPath' = <<pos>>
            /\ UNCHANGED <<selected, dragStart>>
       [] tool = "select" ->
            LET f == found(objects, pos)
            IN /\ selected' = f
               /\ dragStart' =
                    IF f # Null
                    THEN <<Pt(pos.x - At(objects, f).x, pos.y - At(objects, f).y)>>
                    ELSE <<>>
               /\ UNCHANGED <<drawing, currentPath>>
       [] OTHER -> UNCHANGED <<drawing, currentPath, selected, dragStart>>
  /\ UNCHANGED <<app, tool, objects, history, redoStack, lineStart, textInput,
                 textPos, progH>>

\* a faulty move: the grabbed shape jumps with its origin to the pointer
handleMove_jump(pos) ==
  /\ app = "D"
  /\ CASE tool \in {"pencil", "eraser"} /\ drawing ->
            /\ currentPath' = Append(currentPath, pos)
            /\ UNCHANGED objects
       [] tool = "select" /\ selected # Null /\ dragStart # <<>> ->
            /\ objects' = [i \in 1..Len(objects) |->
                             IF i - 1 = selected /\ objects[i].type = "shape"
                             THEN [objects[i] EXCEPT !.x = pos.x, !.y = pos.y]
                             ELSE objects[i]]
            /\ UNCHANGED currentPath
       [] OTHER -> UNCHANGED <<objects, currentPath>>
  /\ UNCHANGED <<app, tool, history, redoStack, selected, drawing, dragStart,
                 lineStart, textInput, textPos, progH>>

handleMove(pos) ==
  /\ app = "D"
  /\ CASE tool \in {"pencil", "eraser"} /\ drawing ->
            /\ currentPath' = Append(currentPath, pos)
            /\ UNCHANGED objects
       [] tool = "select" /\ selected # Null /\ dragStart # <<>> ->
            /\ objects' = [i \in 1..Len(objects) |->
                             IF i - 1 = selected /\ objects[i].type = "shape"
                             THEN [objects[i] EXCEPT !.x = pos.x - dragStart[1].x,
                                                     !.y = pos.y - dragStart[1].y]
                             ELSE objects[i]]
            /\ UNCHANGED currentPath
       [] OTHER -> UNCHANGED <<objects, currentPath>>
  /\ UNCHANGED <<app, tool, history, redoStack, selected, drawing, dragStart,
                 lineStart, textInput, textPos, progH>>

\* also the canvas's onMouseLeave
handleUp ==
  /\ app = "D"
  /\ objects' = IF tool \in {"pencil", "eraser"} /\ drawing /\ Len(currentPath) > 1
                THEN Append(objects, DrawPath(currentPath, tool = "eraser"))
                ELSE objects
  /\ drawing' = FALSE
  /\ currentPath' = <<>>
  /\ dragStart' = <<>>
  /\ UNCHANGED <<app, tool, history, redoStack, selected, lineStart, textInput,
                 textPos, progH>>

\* the Insert Shape button, with the shape type chosen in the select before it
insertShape(kind, x, y) ==
  /\ app = "D"
  /\ objects' = Append(objects, ShapeObjD(kind, x, y))
  /\ UNCHANGED <<app, tool, history, redoStack, selected, drawing, progA, progH>>

(* -------------- page.tsx 557-881, the second DrawingApp ----------------- *)
(* isDrawing is the variable drawing and startPoint the variable lineStart. *)
Size2 == 4
Color2 == "#000000"
Tools2 == {"pencil", "eraser", "text", "select", "shape"}
ShapeTypes2 == {"rectangle", "circle", "triangle"}
Pts2 == {Pt(40, 40), Pt(90, 70)}

Path2(points, isEraser) ==
  [type |-> "path", points |-> points, color |-> Color2, size |-> Size2,
   isEraser |-> isEraser]
\* w: x - startPoint.x || shapeDims.w, h: y - startPoint.y || shapeDims.h
Shape2(kind, from, to) ==
  [type |-> "shape", shape |-> kind, x |-> from.x, y |-> from.y,
   w |-> IF to.x - from.x # 0 THEN to.x - from.x ELSE ShapeW,
   h |-> IF to.y - from.y # 0 THEN to.y - from.y ELSE ShapeH,
   color |-> Color2, size |-> Size2]
Text2(x, y, text) ==
  [type |-> "text", x |-> x, y |-> y, text |-> text, color |-> Color2,
   size |-> Size2]

SetTool2(t) ==
  /\ app = "B"
  /\ tool' = t
  /\ UNCHANGED <<app, objects, history, redoStack, selected, drawing, progA, progH>>

handleMouseDown2(p) ==
  /\ app = "B"
  /\ IF tool \in {"pencil", "eraser"}
     THEN /\ drawing' = TRUE
          /\ currentPath' = <<p>>
          /\ saveHistory
          /\ UNCHANGED <<lineStart, textInput, textPos>>
     ELSE IF tool = "shape"
     THEN /\ lineStart' = <<p>>
          /\ saveHistory
          /\ UNCHANGED <<drawing, currentPath, textInput, textPos>>
     ELSE IF tool = "text"
     THEN /\ textPos' = <<p>>
          /\ textInput' = <<>>
          /\ UNCHANGED <<drawing, currentPath, lineStart, history, redoStack>>
     ELSE UNCHANGED <<drawing, currentPath, lineStart, textInput, textPos,
                      history, redoStack>>
  /\ UNCHANGED <<app, tool, objects, selected, dragStart, progH>>

\* the shape branch only paints a preview
handleMouseMove2(p) ==
  /\ app = "B"
  /\ IF tool \in {"pencil", "eraser"} /\ drawing
     THEN currentPath' = Append(currentPath, p)
     ELSE UNCHANGED currentPath
  /\ UNCHANGED <<app, tool, objects, history, redoStack, selected, drawing,
                 dragStart, lineStart, textInput, textPos, progH>>

\* onMouseUp and onMouseLeave; kind is the shapeType chosen in the toolbar
handleMouseUp2(p, kind) ==
  /\ app = "B"
  /\ IF tool \in {"pencil", "eraser"}
     THEN /\ objects' = IF drawing /\ Len(currentPath) > 1
                        THEN Append(objects, Path2(currentPath, tool = "eraser"))
                        ELSE objects
          /\ drawing' = FALSE
          /\ currentPath' = <<>>
          /\ UNCHANGED lineStart
     ELSE IF tool = "shape" /\ lineStart # <<>>
     THEN /\ objects' = Append(objects, Shape2(kind, lineStart[1], p))
          /\ lineStart' = <<>>
          /\ UNCHANGED <<drawing, currentPath>>
     ELSE UNCHANGED <<objects, drawing, currentPath, lineStart>>
  /\ UNCHANGED <<app, tool, history, redoStack, selected, dragStart, textInput,
                 textPos, progH>>

\* the form is rendered while tool === 'text' && textPos
SetTextInput2(s) ==
  /\ app = "B"
  /\ textPos # <<>> /\ tool = "text"
  /\ textInput' = s
  /\ UNCHANGED <<app, tool, objects, history, redoStack, selected, drawing,
                 dragStart, currentPath, lineStart, textPos, progH>>

handleTextSubmit2 ==
  /\ app = "B"
  /\ textPos # <<>> /\ tool = "text"
  /\ objects' = IF Trim(textInput) # <<>> /\ textPos # <<>>
                THEN Append(objects, Text2(textPos[1].x, textPos[1].y, textInput))
                ELSE objects
  /\ textInput' = <<>>
  /\ textPos' = <<>>
  /\ UNCHANGED <<app, tool, history, redoStack, selected, drawing, dragStart,
                 currentPath, lineStart, progH>>

undo2 ==
  /\ app = "B"
  /\ IF Len(history) = 0
     THEN UNCHANGED <<redoStack, objects, history>>
     ELSE /\ redoStack' = <<objects>> \o redoStack
          /\ objects' = Last(history)
          /\ history' = Front(history)
  /\ UNCHANGED <<app, tool, selected, drawing, progA, progH>>

redo2 ==
  /\ app = "B"
  /\ IF Len(redoStack) = 0
     THEN UNCHANGED <<redoStack, objects, history>>
     ELSE /\ history' = Append(history, objects)
          /\ objects' = Head(redoStack)
          /\ redoStack' = Tail(redoStack)
  /\ UNCHANGED <<app, tool, selected, drawing, progA, progH>>

(* ------------------------ Home: the canvas ------------------------------ *)
\* the settings of a 2D context after canvas.width is assigned
DefaultCtx ==
  [globalAlpha |-> 1, globalCompositeOperation |-> "source-over",
   lineDash |-> <<>>, lineWidth |-> 1, lineCap |-> "butt",
   strokeStyle |-> "#000000", fillStyle |-> "#000000"]

\* a paint operation with the settings that take effect in it
Stroke(what, idx, c) ==
  [op |-> what, of |-> idx, globalAlpha |-> c.globalAlpha,
   globalCompositeOperation |-> c.globalCompositeOperation,
   lineDash |-> c.lineDash, lineWidth |-> c.lineWidth, lineCap |-> c.lineCap,
   style |-> c.strokeStyle]
Fill(what, idx, c) ==
  [op |-> what, of |-> idx, globalAlpha |-> c.globalAlpha,
   globalCompositeOperation |-> c.globalCompositeOperation,
   style |-> c.fillStyle]

\* the body of the forEach of redraw for one object: the paint operations it
\* issues and the settings it leaves
paintObject(obj, idx, isSel, c) ==
  LET afterPath ==
        [c EXCEPT !.globalAlpha = obj.opacity, !.lineWidth = obj.size,
                  !.lineCap = "round",
                  !.globalCompositeOperation =
                     IF obj.isEraser THEN "destination-out" ELSE "source-over",
                  !.strokeStyle =
                     IF obj.isEraser THEN "rgba(0,0,0,1)" ELSE obj.color]
      afterShape ==
        [c EXCEPT !.globalAlpha = obj.opacity,
                  !.globalCompositeOperation = "source-over",
                  !.fillStyle = obj.color]
      body ==
        IF obj.type = "path"
        THEN [ops |-> <<Stroke("stroke", idx, afterPath)>>,
              ctx |-> [afterPath EXCEPT !.globalCompositeOperation = "source-over"]]
        ELSE IF obj.type = "shape"
        THEN [ops |-> IF obj.shape \in {"rectangle", "circle", "triangle"}
                      THEN <<Fill("fill", idx, afterShape)>> ELSE <<>>,
              ctx |-> afterShape]
        ELSE [ops |-> <<>>, ctx |-> c]
      dashed ==
        [body.ctx EXCEPT !.globalAlpha = 1, !.lineDash = <<5, 5>>,
                         !.lineWidth = 2, !.strokeStyle = "#0d6efd"]
      solid == [dashed EXCEPT !.lineDash = <<>>]
      handles == [solid EXCEPT !.fillStyle = "#0d6efd"]
  IN IF ~isSel THEN body
     ELSE IF obj.type = "shape"
     THEN [ops |-> body.ops \o <<Stroke("strokeRect", idx, dashed)>>
                     \o [h \in 1..4 |-> Fill("fillRect", idx, handles)],
           ctx |-> handles]
     ELSE [ops |-> body.ops \o <<Stroke("strokeRect", idx, dashed)>>,
           ctx |-> solid]

RECURSIVE redrawFrom(_, _, _, _, _)
redrawFrom(objs, idx, sel, c, ops) ==
  IF idx >= Len(objs) THEN [ops |-> ops, ctx |-> c]
  ELSE LET one == paintObject(At(objs, idx), idx, sel = idx, c)
       IN redrawFrom(objs, idx + 1, sel, one.ctx, ops \o one.ops)

\* redraw on a context with settings c: the paint operations after clearRect
\* and the settings left behind
redraw(objs, sel, c) == redrawFrom(objs, 0, sel, c, <<>>)

\* the effects of a commit of Home that changed objects, selected or tool: the
\* redraw effect paints on the context as the last commit left it, then the
\* resize effect, which depends on redraw, assigns canvas.width and paints again
firstPaint(objs, sel) == redraw(objs, sel, ctx)
secondPaint(objs, sel) == redraw(objs, sel, DefaultCtx)
Effects ==
  IF app = "H" THEN ctx' = secondPaint(objects', selected').ctx
  ELSE UNCHANGED ctx
InitCtx ==
  ctx = IF app = "H" THEN secondPaint(objects, selected).ctx ELSE DefaultCtx

(* ------------------------- history variables --------------------------- *)
NoGesture == [phase |-> "none", objs |-> <<>>, hlen |-> 0]
Tainted == <<"x">>

\* a step that appends one object to the scene
AppendStep ==
  /\ Len(objects') = Len(objects) + 1
  /\ SubSeq(objects', 1, Len(objects)) = objects

\* Home grows the path just appended while its gesture lasts
GrowStep(op) ==
  /\ app = "H" /\ op = "move" /\ gesture.phase = "active"
  /\ tool \in {"pencil", "eraser"}
  /\ log # <<>> /\ log[Len(log)] = "a"
  /\ Len(objects') = Len(objects) /\ objects # <<>>
  /\ SubSeq(objects', 1, Len(objects) - 1) = SubSeq(objects, 1, Len(objects) - 1)

\* log: "a" for an appending action, "u" and "r" for every call of undo and
\* redo; any other change of the scene or of the stacks taints the log
Observe(op) ==
  /\ Effects
  /\ lastOp' = op
  /\ steps' = steps + 1
  /\ gesture' =
       IF op = "down"
       THEN [phase |-> "active", objs |-> objects, hlen |-> Len(history)]
       ELSE IF op = "move" /\ gesture.phase = "active" THEN gesture
       ELSE IF op = "up" /\ gesture.phase = "active"
       THEN [gesture EXCEPT !.phase = "done"]
       ELSE NoGesture
  /\ IF log = Tainted THEN UNCHANGED <<log, appended>>
     ELSE IF op = "undo" THEN log' = Append(log, "u") /\ UNCHANGED appended
     ELSE IF op = "redo" THEN log' = Append(log, "r") /\ UNCHANGED appended
     ELSE IF <<objects', history', redoStack'>> = <<objects, history, redoStack>>
     THEN UNCHANGED <<log, appended>>
     ELSE IF op \in {"down", "up", "insert", "submit"} /\ AppendStep
     THEN /\ log' = Append(log, "a")
          /\ appended' = Append(appended, objects'[Len(objects')])
     ELSE IF GrowStep(op)
     THEN /\ UNCHANGED log
          /\ appended' = [appended EXCEPT ![Len(appended)] = objects'[Len(objects')]]
     ELSE log' = Tainted /\ appended' = <<>>

Budget == steps < MaxSteps

(* --------------------------- specifications ---------------------------- *)
InitCommon ==
  /\ tool = "pencil"
  /\ objects = <<>>
  /\ history = <<>>
  /\ redoStack = <<>>
  /\ selected = Null
  /\ drawing = FALSE
  /\ dragStart = <<>>
  /\ currentPath = <<>>
  /\ lineStart = <<>>
  /\ textInput = <<>>
  /\ textPos = <<>>
  /\ start = Pt(0, 0)
  /\ resizeHandle = Null
  /\ lastOp = "init"
  /\ steps = 0
  /\ gesture = NoGesture
  /\ log = <<>>
  /\ appended = <<>>
  /\ InitCtx

InitA == app = "A" /\ InitCommon
InitH == app = "H" /\ InitCommon

NextA ==
  \/ Budget /\ (\E t \in ToolsA : SetToolA(t)) /\ Observe("setTool")
  \/ Budget /\ (\E p \in PtsA : handleMouseDown(p)) /\ Observe("down")
  \/ Budget /\ (\E p \in PtsA : handleMouseMove(p)) /\ Observe("move")
  \/ Budget /\ (\E p \in PtsA : handleMouseUp(p)) /\ Observe("up")
  \/ Budget /\ undo /\ Observe("undo")
  \/ Budget /\ redo /\ Observe("redo")
  \/ Budget /\ (\E v \in ShapeVals : handleShapeInsert(v)) /\ Observe("insert")
  \/ Budget /\ handleDelete /\ Observe("delete")
  \/ Budget /\ handleBack /\ Observe("back")
  \/ Budget /\ handleFront /\ Observe("front")
  \/ Budget /\ (\E s \in TextInputs : SetTextInput(s)) /\ Observe("type")
  \/ Budget /\ handleTextSubmit /\ Observe("submit")

NextH ==
  \/ Budget /\ (\E t \in ToolsH : SetToolH(t)) /\ Observe("setTool")
  \/ Budget /\ (\E pt \in PtsH : handlePointerDown(pt)) /\ Observe("down")
  \/ Budget /\ (\E pt \in PtsH : handlePointerMove(pt)) /\ Observe("move")
  \/ Budget /\ handlePointerUp /\ Observe("up")
  \/ Budget /\ handleUndo /\ Observe("undo")
  \/ Budget /\ handleRedo /\ Observe("redo")
  \/ Budget /\ handleClear /\ Observe("clear")
  \/ Budget /\ Home_handleDelete /\ Observe("delete")
  \/ Budget /\ handleBringForward /\ Observe("front")
  \/ Budget /\ handleSendBackward /\ Observe("back")

SpecA == InitA /\ [][NextA]_vars
SpecH == InitH /\ [][NextH]_vars
Spec == (InitA \/ InitH) /\ [][NextA \/ NextH]_vars

Init2 == app = "B" /\ InitCommon

Next2 ==
  \/ Budget /\ (\E t \in Tools2 : SetTool2(t)) /\ Observe("setTool")
  \/ Budget /\ (\E p \in Pts2 : handleMouseDown2(p)) /\ Observe("down")
  \/ Budget /\ (\E p \in Pts2 : handleMouseMove2(p)) /\ Observe("move")
  \/ Budget /\ (\E p \in Pts2, k \in ShapeTypes2 : handleMouseUp2(p, k)) /\ Observe("up")
  \/ Budget /\ (\E s \in TextInputs : SetTextInput2(s)) /\ Observe("type")
  \/ Budget /\ handleTextSubmit2 /\ Observe("submit")
  \/ Budget /\ undo2 /\ Observe("undo")
  \/ Budget /\ redo2 /\ Observe("redo")

Spec2 == Init2 /\ [][Next2]_vars

(* A resize gesture of Home on its own: the states right after a pointer-down *)
(* on one of the four handles of a selected shape, then pointer events on a   *)
(* grid that reaches beyond every corner. shapeW and shapeH are number inputs *)
(* of the toolbar, so a shape may be smaller than MinSize before the resize.  *)
GridX == {0, 50, 150, 200}
GridY == {0, 30, 90, 120}
PtsResize == {Pt(x, y) : x \in GridX, y \in GridY}
ShapeDims == {<<100, 60>>, <<4, 4>>}

InitResize ==
  \E d \in ShapeDims, h \in 0..3 :
    LET shape == ShapeObjH(ShapeType, 50, 30, d[1], d[2])
    IN /\ app = "H"
       /\ tool = "select"
       /\ objects = <<shape>>
       /\ history = <<<<>>>>
       /\ redoStack = <<>>
       /\ selected = 0
       /\ drawing = TRUE
       /\ start = Corners(shape)[h + 1]
       /\ resizeHandle = h
       /\ dragStart = <<>> /\ currentPath = <<>> /\ lineStart = <<>>
       /\ textInput = <<>> /\ textPos = <<>>
       /\ lastOp = "down"
       /\ steps = 0
       /\ gesture = [phase |-> "active", objs |-> objects, hlen |-> 1]
       /\ log = Tainted
       /\ appended = <<>>
       /\ InitCtx

ResizeBudget == steps < MaxResizeSteps

NextResize ==
  \/ ResizeBudget /\ (\E pt \in PtsResize : handlePointerDown(pt)) /\ Observe("down")
  \/ ResizeBudget /\ (\E pt \in PtsResize : handlePointerMove(pt)) /\ Observe("move")
  \/ ResizeBudget /\ handlePointerUp /\ Observe("up")

SpecResize == InitResize /\ [][NextResize]_vars

(* moveObject on its own: one object of each kind, selected and grabbed at a *)
(* point of the grid, then pointer-moves over the grid. Every pointer-move   *)
(* applies moveObject to the object with the displacement since the last one. *)
MaxMoveSteps == 3
GridM == {-60, 0, 50}
PtsMove == {Pt(x, y) : x \in GridM, y \in GridM}
MoveSamples ==
  { PathObj(<<Pt(0, 0), Pt(10, 10), Pt(20, 5)>>, FALSE),
    LineObj(Pt(10, 40), Pt(30, 20)),
    ShapeObjA("rectangle", 10, 10, ShapeW, ShapeH),
    ShapeObjA("circle", 10, 10, ShapeW, ShapeH),
    TextObj(20, 30, <<"a">>) }

InitMove ==
  \E o \in MoveSamples, p \in PtsMove :
    /\ app = "A"
    /\ tool = "select"
    /\ objects = <<o>>
    /\ history = <<<<>>>>
    /\ redoStack = <<>>
    /\ selected = 0
    /\ drawing = FALSE
    /\ dragStart = <<p>>
    /\ currentPath = <<>> /\ lineStart = <<>>
    /\ textInput = <<>> /\ textPos = <<>>
    /\ start = Pt(0, 0)
    /\ resizeHandle = Null
    /\ lastOp = "down"
    /\ steps = 0
    /\ gesture = [phase |-> "active", objs |-> objects, hlen |-> 1, at |-> p]
    /\ log = Tainted
    /\ appended = <<>>
    /\ InitCtx

MoveBudget == steps < MaxMoveSteps

NextMove ==
  MoveBudget /\ (\E p \in PtsMove : handleMouseMove(p)) /\ Observe("move")

SpecMove == InitMove /\ [][NextMove]_vars

(* The select-tool hit test on its own, in the three components: scenes of   *)
(* one or two objects, then pointer-downs at the centre and the corners of   *)
(* the objects' bounding boxes, far to the left of them and just outside a   *)
(* corner. shapeW of the first DrawingApp is a number input without bounds   *)
(* (page.tsx:463), so a shape may have a negative width.                     *)
MaxHitSteps == 3
HitSamplesA == MoveSamples \cup {ShapeObjA("rectangle", 50, 50, -100, ShapeH)}
HitSamplesH ==
  { PathObj(<<Pt(0, 0), Pt(10, 10), Pt(20, 5)>>, FALSE),
    ShapeObjH("rectangle", 0, 0, ShapeW, ShapeH),
    ShapeObjH("rectangle", 50, 30, ShapeW, ShapeH),
    ShapeObjH("circle", 50, 30, ShapeW, ShapeH) }
HitSamplesD ==
  { DrawPath(<<Pt(80, 80), Pt(130, 120)>>, FALSE),
    ShapeObjD("rectangle", 80, 80),
    ShapeObjD("rectangle", 120, 120),
    ShapeObjD("circle", 80, 80) }
Scenes(one, two) == {<<o>> : o \in one} \cup {<<a, b>> : a \in two, b \in two}
\* the undo stack after the objects of a scene were appended one by one
PrefixHistory(objs) == [k \in 1..Len(objs) |-> SubSeq(objs, 1, k - 1)]

BoxPts(obj) ==
  LET b == getBoundingBox(obj)
  IN { Pt(b.x + b.w \div 2, b.y + b.h \div 2), Pt(b.x - 1000, b.y + b.h \div 2),
       Pt(b.x, b.y), Pt(b.x + b.w, b.y), Pt(b.x, b.y + b.h),
       Pt(b.x + b.w, b.y + b.h), Pt(b.x + b.w + 5, b.y + b.h + 5) }
PtsHit(objs) == UNION {BoxPts(objs[i]) : i \in 1..Len(objs)}

InitHit ==
  /\ app \in {"A", "H", "D"}
  /\ tool = "select"
  /\ objects \in (CASE app = "A" -> Scenes(HitSamplesA, MoveSamples)
                     [] app = "H" -> Scenes(HitSamplesH, HitSamplesH)
                     [] app = "D" -> Scenes(HitSamplesD, HitSamplesD))
  /\ history = IF app = "D" THEN <<>> ELSE PrefixHistory(objects)
  /\ redoStack = <<>>
  /\ selected \in {Null} \cup (IF app = "H" THEN 0..(Len(objects) - 1) ELSE {})
  /\ drawing = FALSE
  /\ dragStart = <<>> /\ currentPath = <<>> /\ lineStart = <<>>
  /\ textInput = <<>> /\ textPos = <<>>
  /\ start = Pt(0, 0)
  /\ resizeHandle = Null
  /\ lastOp = "init"
  /\ steps = 0
  /\ gesture = NoGesture
  /\ log = Tainted
  /\ appended = <<>>
  /\ InitCtx

\* Observe for a pointer-down, keeping the pointer position and the selection
\* the handler started from
ObserveAt(op, p) ==
  /\ Effects
  /\ lastOp' = op
  /\ steps' = steps + 1
  /\ gesture' = [phase |-> "active", objs |-> objects, hlen |-> Len(history),
                 at |-> p, sel |-> selected]
  /\ UNCHANGED <<log, appended>>

HitBudget == steps < MaxHitSteps

NextHit ==
  \/ HitBudget /\ (\E p \in PtsHit(objects) : handleMouseDown(p) /\ ObserveAt("down", p))
  \/ HitBudget /\ (\E p \in PtsHit(objects) : handleMouseUp(p)) /\ Observe("up")
  \/ HitBudget /\ (\E p \in PtsHit(objects) : handlePointerDown(p) /\ ObserveAt("down", p))
  \/ HitBudget /\ handlePointerUp /\ Observe("up")
  \/ HitBudget /\ (\E p \in PtsHit(objects) : handleDown(p) /\ ObserveAt("down", p))
  \/ HitBudget /\ handleUp /\ Observe("up")

SpecHit == InitHit /\ [][NextHit]_vars

(* A pencil or eraser gesture on its own, in the first DrawingApp and in     *)
(* Home: pointer-down, pointer-moves and pointer-up over three positions,    *)
(* on an empty scene or on one that already holds an object.                 *)
MaxStrokeSteps == 4
PtsStroke == {Pt(0, 0), Pt(10, 10), Pt(20, 5)}
StrokeScenes ==
  CASE app = "A" -> {<<>>, <<ShapeObjA("rectangle", 10, 10, ShapeW, ShapeH)>>}
    [] app = "H" -> {<<>>, <<ShapeObjH("rectangle", 0, 0, ShapeW, ShapeH)>>,
                     <<PathObj(<<Pt(0, 0), Pt(20, 5)>>, FALSE)>>}

InitStroke ==
  /\ app \in {"A", "H"}
  /\ tool \in {"pencil", "eraser"}
  /\ objects \in StrokeScenes
  /\ history = PrefixHistory(objects)
  /\ redoStack = <<>>
  /\ selected = Null
  /\ drawing = FALSE
  /\ dragStart = <<>> /\ currentPath = <<>> /\ lineStart = <<>>
  /\ textInput = <<>> /\ textPos = <<>>
  /\ start = Pt(0, 0)
  /\ resizeHandle = Null
  /\ lastOp = "init"
  /\ steps = 0
  /\ gesture = NoGesture
  /\ log = Tainted
  /\ appended = <<>>
  /\ InitCtx

\* Observe for the pointer events of a gesture, keeping the positions of the
\* pointer-down and of the pointer-moves after it
ObserveStroke(op, p) ==
  /\ Effects
  /\ lastOp' = op
  /\ steps' = steps + 1
  /\ gesture' =
       IF op = "down"
       THEN [phase |-> "active", objs |-> objects, hlen |-> Len(history), pts |-> <<p>>]
       ELSE IF gesture.phase # "active" THEN NoGesture
       ELSE IF op = "move" THEN [gesture EXCEPT !.pts = Append(gesture.pts, p)]
       ELSE [gesture EXCEPT !.phase = "done"]
  /\ UNCHANGED <<log, appended>>

StrokeBudget == steps < MaxStrokeSteps

NextStroke ==
  \/ StrokeBudget /\ (\E p \in PtsStroke : handleMouseDown(p) /\ ObserveStroke("down", p))
  \/ StrokeBudget /\ (\E p \in PtsStroke : handleMouseMove(p) /\ ObserveStroke("move", p))
  \/ StrokeBudget /\ (\E p \in PtsStroke : handleMouseUp(p) /\ ObserveStroke("up", p))
  \/ StrokeBudget /\ (\E p \in PtsStroke : handlePointerDown(p) /\ ObserveStroke("down", p))
  \/ StrokeBudget /\ (\E p \in PtsStroke : handlePointerMove(p) /\ ObserveStroke("move", p))
  \/ StrokeBudget /\ handlePointerUp /\ ObserveStroke("up", start)

SpecStroke == InitStroke /\ [][NextStroke]_vars

(* The bounding box of a text on its own, in the first DrawingApp: one text  *)
(* of one to three characters, in a size of the range input (page.tsx:450),  *)
(* then select-tool pointer events on it, inside and outside its box.        *)
MaxTextSteps == 3
TextSizes == {1, 5, 30}
TextSamples == {<<"a">>, <<"a", "b">>, <<"a", "b", "c">>}
PtsText == {Pt(0, 0), Pt(20, 30), Pt(25, 20), Pt(60, -85)}

InitText ==
  \E s \in TextSizes, t \in TextSamples :
    /\ app = "A"
    /\ tool = "select"
    /\ objects = <<[TextObj(20, 30, t) EXCEPT !.size = s]>>
    /\ history = <<<<>>>>
    /\ redoStack = <<>>
    /\ selected = Null
    /\ drawing = FALSE
    /\ dragStart = <<>>
    /\ currentPath = <<>> /\ lineStart = <<>>
    /\ textInput = <<>> /\ textPos = <<>>
    /\ start = Pt(0, 0)
    /\ resizeHandle = Null
    /\ lastOp = "init"
    /\ steps = 0
    /\ gesture = NoGesture
    /\ log = Tainted
    /\ appended = <<>>
    /\ InitCtx

TextBudget == steps < MaxTextSteps

NextText ==
  \/ TextBudget /\ (\E p \in PtsText : handleMouseDown(p)) /\ Observe("down")
  \/ TextBudget /\ (\E p \in PtsText : handleMouseMove(p)) /\ Observe("move")
  \/ TextBudget /\ (\E p \in PtsText : handleMouseUp(p)) /\ Observe("up")

SpecText == InitText /\ [][NextText]_vars

(* A select-tool drag on its own, in the first DrawingApp and in the older   *)
(* DrawingApp: scenes of one or two objects, then pointer-downs, moves and   *)
(* pointer-ups at positions inside the shapes and outside every object.      *)
MaxDragSteps == 4
DragSamplesA ==
  { PathObj(<<Pt(0, 0), Pt(10, 10), Pt(20, 5)>>, FALSE),
    ShapeObjA("rectangle", 10, 10, ShapeW, ShapeH),
    ShapeObjA("circle", 30, 20, ShapeW, ShapeH) }
DragSamplesD ==
  { DrawPath(<<Pt(80, 80), Pt(130, 120)>>, FALSE),
    ShapeObjD("rectangle", 80, 80),
    ShapeObjD("circle", 120, 120) }
PtsDrag == {Pt(60, 40), Pt(85, 85), Pt(130, 125), Pt(-20, 200)}

InitDrag ==
  /\ app \in {"A", "D"}
  /\ tool = "select"
  /\ objects \in (IF app = "A" THEN Scenes(DragSamplesA, DragSamplesA)
                  ELSE Scenes(DragSamplesD, DragSamplesD))
  /\ history = IF app = "D" THEN <<>> ELSE PrefixHistory(objects)
  /\ redoStack = <<>>
  /\ selected = Null
  /\ drawing = FALSE
  /\ dragStart = <<>> /\ currentPath = <<>> /\ lineStart = <<>>
  /\ textInput = <<>> /\ textPos = <<>>
  /\ start = Pt(0, 0)
  /\ resizeHandle = Null
  /\ lastOp = "init"
  /\ steps = 0
  /\ gesture = NoGesture
  /\ log = Tainted
  /\ appended = <<>>
  /\ InitCtx

DragBudget == steps < MaxDragSteps

NextDrag ==
  \/ DragBudget /\ (\E p \in PtsDrag : handleMouseDown(p) /\ ObserveStroke("down", p))
  \/ DragBudget /\ (\E p \in PtsDrag : handleMouseMove(p) /\ ObserveStroke("move", p))
  \/ DragBudget /\ (\E p \in PtsDrag : handleMouseUp(p) /\ ObserveStroke("up", p))
  \/ DragBudget /\ (\E p \in PtsDrag : handleDown(p) /\ ObserveStroke("down", p))
  \/ DragBudget /\ (\E p \in PtsDrag : handleMove(p) /\ ObserveStroke("move", p))
  \/ DragBudget /\ (\E p \in PtsDrag : handleUp /\ ObserveStroke("up", p))

SpecDrag == InitDrag /\ [][NextDrag]_vars

(* A pencil or eraser gesture of Home among the toolbar's buttons: from the  *)
(* empty scene, pointer events with undo, redo, clear and delete between     *)
(* them. The canvas has no onMouseLeave, so a gesture stays open while the   *)
(* pointer is over the toolbar.                                              *)
MaxGestureSteps == 5

\* Observe keeping the scene of the last pointer-down until the pointer-up
ObserveGesture(op) ==
  /\ Effects
  /\ lastOp' = op
  /\ steps' = steps + 1
  /\ gesture' =
       IF op = "down"
       THEN [phase |-> "active", objs |-> objects, hlen |-> Len(history)]
       ELSE IF op = "up" THEN NoGesture
       ELSE gesture
  /\ UNCHANGED <<log, appended>>

GestureBudget == steps < MaxGestureSteps

NextGesture ==
  \/ GestureBudget /\ (\E t \in {"pencil", "eraser"} : SetToolH(t)) /\ ObserveGesture("setTool")
  \/ GestureBudget /\ (\E pt \in PtsH : handlePointerDown(pt)) /\ ObserveGesture("down")
  \/ GestureBudget /\ (\E pt \in PtsH : handlePointerMove(pt)) /\ ObserveGesture("move")
  \/ GestureBudget /\ handlePointerUp /\ ObserveGesture("up")
  \/ GestureBudget /\ handleUndo /\ ObserveGesture("undo")
  \/ GestureBudget /\ handleRedo /\ ObserveGesture("redo")
  \/ GestureBudget /\ handleClear /\ ObserveGesture("clear")
  \/ GestureBudget /\ Home_handleDelete /\ ObserveGesture("delete")

SpecGesture == InitH /\ [][NextGesture]_vars

(* Pointer-moves of Home that arrive faster than the component renders:     *)
(* scenes of one or two objects, select tool, then pointer-downs, single     *)
(* pointer-moves, pairs of pointer-moves handled in one render, pointer-ups. *)
MaxBatchSteps == 3
PtsBatch == {Pt(50, 30), Pt(100, 60), Pt(120, 80)}

InitBatch ==
  /\ app = "H"
  /\ tool = "select"
  /\ objects \in Scenes(HitSamplesH, HitSamplesH)
  /\ history = PrefixHistory(objects)
  /\ redoStack = <<>>
  /\ selected = Null
  /\ drawing = FALSE
  /\ dragStart = <<>> /\ currentPath = <<>> /\ lineStart = <<>>
  /\ textInput = <<>> /\ textPos = <<>>
  /\ start = Pt(0, 0)
  /\ resizeHandle = Null
  /\ lastOp = "init"
  /\ steps = 0
  /\ gesture = NoGesture
  /\ log = Tainted
  /\ appended = <<>>
  /\ InitCtx

BatchBudget == steps < MaxBatchSteps

NextBatch ==
  \/ BatchBudget /\ (\E pt \in PtsBatch : handlePointerDown(pt)) /\ Observe("down")
  \/ BatchBudget /\ (\E pt \in PtsBatch : handlePointerMove(pt)) /\ Observe("move")
  \/ BatchBudget /\ (\E p1, p2 \in PtsBatch : handlePointerMoveTwice(p1, p2)) /\ Observe("moves")
  \/ BatchBudget /\ handlePointerUp /\ Observe("up")

SpecBatch == InitBatch /\ [][NextBatch]_vars

(* Undo and redo back to back, in the first DrawingApp and in Home: scenes   *)
(* are built from the empty one by inserts and pointer events, then undone   *)
(* and redone.                                                               *)
MaxRoundSteps == 5

\* Observe keeping the scene and the stacks an undo or a redo that found a
\* snapshot started from, through the redo or the undo called right after it
ObserveRound(op) ==
  /\ Effects
  /\ lastOp' = op
  /\ steps' = steps + 1
  /\ gesture' =
       IF op = "redo" /\ gesture.phase = "undone"
       THEN [gesture EXCEPT !.phase = "undo-redo"]
       ELSE IF op = "undo" /\ gesture.phase = "redone"
       THEN [gesture EXCEPT !.phase = "redo-undo"]
       ELSE IF op = "undo" /\ history # <<>>
       THEN [phase |-> "undone", objs |-> objects, hlen |-> Len(history),
             hist |-> history, redo |-> redoStack]
       ELSE IF op = "redo" /\ redoStack # <<>>
       THEN [phase |-> "redone", objs |-> objects, hlen |-> Len(history),
             hist |-> history, redo |-> redoStack]
       ELSE NoGesture
  /\ UNCHANGED <<log, appended>>

RoundBudget == steps < MaxRoundSteps

NextRound ==
  \/ RoundBudget /\ (\E t \in ToolsA : SetToolA(t)) /\ ObserveRound("setTool")
  \/ RoundBudget /\ (\E p \in PtsA : handleMouseDown(p)) /\ ObserveRound("down")
  \/ RoundBudget /\ (\E p \in PtsA : handleMouseMove(p)) /\ ObserveRound("move")
  \/ RoundBudget /\ (\E p \in PtsA : handleMouseUp(p)) /\ ObserveRound("up")
  \/ RoundBudget /\ (\E v \in ShapeVals : handleShapeInsert(v)) /\ ObserveRound("insert")
  \/ RoundBudget /\ undo /\ ObserveRound("undo")
  \/ RoundBudget /\ redo /\ ObserveRound("redo")
  \/ RoundBudget /\ (\E t \in ToolsH : SetToolH(t)) /\ ObserveRound("setTool")
  \/ RoundBudget /\ (\E pt \in PtsH : handlePointerDown(pt)) /\ ObserveRound("down")
  \/ RoundBudget /\ (\E pt \in PtsH : handlePointerMove(pt)) /\ ObserveRound("move")
  \/ RoundBudget /\ handlePointerUp /\ ObserveRound("up")
  \/ RoundBudget /\ handleClear /\ ObserveRound("clear")
  \/ RoundBudget /\ handleUndo /\ ObserveRound("undo")
  \/ RoundBudget /\ handleRedo /\ ObserveRound("redo")

SpecRound == (InitA \/ InitH) /\ [][NextRound]_vars

(* ----------------------------- properties ------------------------------- *)
Rep(c, n) == [i \in 1..n |-> c]
PathsOk(objs) ==
  \A i \in 1..Len(objs) : objs[i].type = "path" => Len(objs[i].points) >= 2

\* C1: from the empty scene and empty stacks, after N appending actions N
\* calls of undo leave objects empty, and N calls of redo after them leave
\* objects equal to the list of the N appended objects (both components).
C1_RoundTrip ==
  \A n \in 1..MaxSteps :
    /\ (log = Rep("a", n) \o Rep("u", n)) => objects = <<>>
    /\ (log = Rep("a", n) \o Rep("u", n) \o Rep("r", n)) => objects = appended
C1_Witness ==
  /\ log = <<"a", "a", "u", "u", "r", "r">>
  /\ Len(appended) = 2 /\ objects = appended

\* C2: after draw A, draw B, undo, draw C the redo stack is empty, objects is
\* <<A, C>>, a redo changes nothing, and no later sequence of undo and redo
\* calls brings B back (both components).
C2_ClearOnNewAction ==
  (/\ Len(log) >= 4
   /\ SubSeq(log, 1, 4) = <<"a", "a", "u", "a">>
   /\ \A i \in 5..Len(log) : log[i] \in {"u", "r"})
  => /\ Len(log) = 4 => redoStack = <<>> /\ objects = <<appended[1], appended[3]>>
     /\ (Len(log) = 5 /\ log[5] = "r")
          => redoStack = <<>> /\ objects = <<appended[1], appended[3]>>
     /\ appended[2] \notin {appended[1], appended[3]}
          => \A i \in 1..Len(objects) : objects[i] # appended[2]
C2_Witness ==
  /\ log = <<"a", "a", "u", "a", "r", "u">>
  /\ appended[2] \notin {appended[1], appended[3]}
  /\ objects = <<appended[1]>>

\* C3: in the first DrawingApp, one undo after a completed select-drag gesture
\* restores the scene the gesture started from (the rectangle dragged from
\* (50,50) to (60,60) is back at (50,50)).
C3_UndoRestoresPreDrag ==
  [][(/\ app = "A" /\ gesture.phase = "done" /\ tool = "select"
      /\ selected # Null /\ objects # gesture.objs
      /\ lastOp' = "undo")
     => objects' = gesture.objs]_vars

\* C4: in Home, a completed gesture that changed the scene has pushed exactly
\* one snapshot, the scene before the gesture, and no pointer-move pushes one.
C4_OneSnapshotPerGesture ==
  [][/\ (app = "H" /\ gesture.phase = "active" /\ lastOp' = "up"
           /\ objects' # gesture.objs)
        => (/\ Len(history') = gesture.hlen + 1
            /\ history'[Len(history')] = gesture.objs)
     /\ (app = "H" /\ lastOp' = "move") => history' = history]_vars

\* C5: in Home, after an undo every action other than undo and redo that
\* changes objects leaves the redo stack empty.
C5_EditClearsRedo ==
  [][(/\ app = "H" /\ redoStack # <<>> /\ objects' # objects
      /\ lastOp' \notin {"undo", "redo"})
     => redoStack' = <<>>]_vars

\* C6: undo with an empty undo stack and redo with an empty redo stack change
\* none of objects, the two stacks and the selection (both components).
C6_EmptyStackNoOp ==
  [][(\/ lastOp' = "undo" /\ history = <<>>
      \/ lastOp' = "redo" /\ redoStack = <<>>)
     => UNCHANGED <<objects, history, redoStack, selected>>]_vars
\* a redo called right after an append, which emptied the redo stack, with an
\* object selected
C6_Witness ==
  /\ log = <<"a", "r">> /\ lastOp = "redo"
  /\ objects = appended /\ objects # <<>> /\ selected # Null

\* C7: in the first DrawingApp, an undo with a non-empty undo stack leaves no
\* selection.
C7_UndoClearsSelection ==
  [][(app = "A" /\ lastOp' = "undo" /\ history # <<>>) => selected' = Null]_vars

\* C8: in the first DrawingApp, selected is null or an index of objects.
C8_SelectedValid ==
  app = "A" => (selected = Null \/ InRange(objects, selected))

\* C9: in Home, when no gesture is in progress every path of objects has at
\* least two points.
C9_NoOnePointPath ==
  (app = "H" /\ ~drawing) => PathsOk(objects)

\* C10: in Home, after a pointer-move handled while a resize handle is active
\* the selected shape has w >= 10 and h >= 10.
C10_ResizeClamp ==
  (/\ app = "H" /\ lastOp = "move" /\ drawing /\ resizeHandle # Null
   /\ selected # Null /\ IsShapeAt(objects, selected))
  => At(objects, selected).w >= MinSize /\ At(objects, selected).h >= MinSize
\* a top-left handle dragged beyond the bottom-right corner
C10_Witness ==
  /\ app = "H" /\ lastOp = "move" /\ drawing /\ resizeHandle = 0
  /\ selected # Null /\ IsShapeAt(objects, selected)
  /\ At(objects, selected).x > gesture.objs[selected + 1].x + gesture.objs[selected + 1].w
  /\ At(objects, selected).w = MinSize

\* the corner of a shape opposite to handle c (0 tl, 1 tr, 2 bl, 3 br)
OppositeCorner(obj, c) == Corners(obj)[4 - c]

\* C11: in Home, a pointer-move handled by the resize branch with handle c
\* leaves the corner of the selected shape opposite to c where it was.
C11_OppositeCornerFixed ==
  [][(/\ app = "H" /\ lastOp' = "move" /\ drawing /\ resizeHandle # Null
      /\ selected # Null /\ IsShapeAt(objects, selected))
     => OppositeCorner(At(objects', selected), resizeHandle)
          = OppositeCorner(At(objects, selected), resizeHandle)]_vars

\* the fields of an object that are not coordinates
SameStyle(a, b) ==
  /\ DOMAIN a = DOMAIN b
  /\ \A f \in DOMAIN a \ {"x", "y", "points"} : a[f] = b[f]
  /\ a.type \in {"path", "line"} => Len(a.points) = Len(b.points)

\* C12: moveObject applied with (dx1, dy1) and then with (dx2, dy2) equals
\* moveObject applied once with (dx1 + dx2, dy1 + dy2), for every kind of
\* object, and it changes no field other than the coordinates.
C12_MoveAdditive ==
  [][(lastOp' = "move" /\ dragStart # <<>> /\ dragStart' # <<>>)
     => LET o   == gesture.objs[1]
            dx1 == dragStart[1].x - gesture.at.x
            dy1 == dragStart[1].y - gesture.at.y
            dx2 == dragStart'[1].x - dragStart[1].x
            dy2 == dragStart'[1].y - dragStart[1].y
        IN /\ objects[1] = moveObject(o, dx1, dy1)
           /\ objects'[1] = moveObject(moveObject(o, dx1, dy1), dx2, dy2)
           /\ objects'[1] = moveObject(o, dx1 + dx2, dy1 + dy2)
           /\ SameStyle(objects'[1], o)]_vars
\* a text moved left and up and then right, two moves after the grab
C12_Witness ==
  /\ lastOp = "move" /\ steps = 2 /\ gesture.phase = "active"
  /\ objects[1].type = "text"
  /\ objects[1].x = gesture.objs[1].x + 50 /\ objects[1].y = gesture.objs[1].y - 60
  /\ dragStart[1] = Pt(gesture.at.x + 50, gesture.at.y - 60)

\* the centre of a bounding box
Centre(b) == Pt(b.x + b.w \div 2, b.y + b.h \div 2)

\* C13: in the first DrawingApp, with one object in the scene, a select-tool
\* pointer-down at the centre of its bounding box selects it, and one at
\* x = box.x - 1000 leaves nothing selected.
C13_CentreHit ==
  (app = "A" /\ lastOp = "down" /\ Len(gesture.objs) = 1)
  => LET b == getBoundingBox(gesture.objs[1])
     IN /\ gesture.at = Centre(b) => selected = 0
        /\ gesture.at.x = b.x - 1000 => selected = Null

\* C14: in the first DrawingApp, a select-tool pointer-down selects a circle
\* that is alone in the scene exactly when the point satisfies the ellipse
\* containment of the circle's box; a corner of the box does not select it.
C14_CircleEllipse ==
  (/\ app = "A" /\ lastOp = "down" /\ Len(gesture.objs) = 1
   /\ gesture.objs[1].type = "shape" /\ gesture.objs[1].shape = "circle")
  => (selected = 0 <=> InEllipse(gesture.objs[1], gesture.at))

\* the hit test each component applies to one object
HitRegion(obj, p) ==
  CASE app = "A" -> HitBox(obj, p)
    [] app = "H" -> Home_hit(obj, p)
    [] app = "D" -> DrawingApp_hit(obj, p)
\* the indices of the objects of the scene at the pointer-down that contain
\* the pointer position
HitsAtDown ==
  {i \in 0..(Len(gesture.objs) - 1) : HitRegion(At(gesture.objs, i), gesture.at)}
\* Home: the pointer-down landed on a resize handle of the shape that was
\* selected when it happened
GrabbedHandle ==
  /\ app = "H" /\ gesture.sel # Null /\ IsShapeAt(gesture.objs, gesture.sel)
  /\ HandleAt(At(gesture.objs, gesture.sel), gesture.at) # Null

\* C15 as stated: after a select-tool pointer-down the selected index is the
\* largest index among the objects containing the point, and null when no
\* object contains it (first DrawingApp, Home, older DrawingApp).
C15_TopmostWins ==
  (lastOp = "down" /\ tool = "select")
  => /\ HitsAtDown # {} => selected = MaxOf(HitsAtDown)
     /\ HitsAtDown = {} => selected = Null

\* C15 amended: the same, unless the pointer-down of Home lands on a resize
\* handle of the selected shape; then the selection stays and the handle is
\* taken.
C15_TopmostWinsUnlessHandle ==
  (lastOp = "down" /\ tool = "select")
  => IF GrabbedHandle
     THEN /\ selected = gesture.sel
          /\ resizeHandle = HandleAt(At(gesture.objs, gesture.sel), gesture.at)
     ELSE /\ HitsAtDown # {} => selected = MaxOf(HitsAtDown)
          /\ HitsAtDown = {} => selected = Null
\* two overlapping shapes of the older DrawingApp, both under the pointer
C15_Witness ==
  /\ app = "D" /\ lastOp = "down" /\ tool = "select"
  /\ HitsAtDown = {0, 1} /\ selected = 1

\* C16: a pencil gesture of pointer-down at p0, pointer-moves at p1..pn
\* (n >= 1) and pointer-up appends exactly one path to the scene, with the
\* points p0, p1, ..., pn in that order; for (0,0), (10,10), (20,5) its
\* bounding box is x 0, y 0, w 20, h 10 (first DrawingApp and Home).
C16_StrokeStored ==
  (/\ lastOp = "up" /\ gesture.phase = "done" /\ tool = "pencil"
   /\ Len(gesture.pts) >= 2)
  => /\ Len(objects) = Len(gesture.objs) + 1
     /\ Front(objects) = gesture.objs
     /\ Last(objects).type = "path"
     /\ Last(objects).points = gesture.pts
     /\ gesture.pts = <<Pt(0, 0), Pt(10, 10), Pt(20, 5)>>
          => getBoundingBox(Last(objects)) = [x |-> 0, y |-> 0, w |-> 20, h |-> 10]
C16_Witness ==
  /\ app = "H" /\ lastOp = "up" /\ gesture.phase = "done" /\ tool = "pencil"
  /\ gesture.pts = <<Pt(0, 0), Pt(10, 10), Pt(20, 5)>>
  /\ Len(objects) = 2 /\ Last(objects).points = gesture.pts

\* a text with no character other than the space
Blank(text) == \A i \in 1..Len(text) : text[i] = " "

\* C17: in the first DrawingApp, submitting an empty or whitespace-only text
\* leaves objects and the two stacks unchanged and clears the pending text
\* position, and a text-tool pointer-down never changes objects.
C17_BlankTextDropped ==
  [][/\ (app = "A" /\ lastOp' = "submit" /\ Blank(textInput))
        => (UNCHANGED <<objects, history, redoStack>> /\ textPos' = <<>>)
     /\ (app = "A" /\ lastOp' = "down" /\ tool = "text")
        => UNCHANGED objects]_vars
\* a submit that stored nothing, made while the redo stack held a snapshot
C17_Witness ==
  /\ app = "A" /\ lastOp = "submit" /\ tool = "text" /\ textPos = <<>>
  /\ history = <<>> /\ redoStack # <<>>

\* C18: in the first DrawingApp, a line-tool pointer-down and pointer-up at the
\* same point store nothing, so objects never holds a line whose two endpoints
\* are equal.
C18_NoZeroLengthLine ==
  app = "A" =>
    \A i \in 1..Len(objects) :
      objects[i].type = "line" => objects[i].points[1] # objects[i].points[2]

\* C19: in Home, a pointer-down at pt with the shape tool pushes one snapshot
\* (the scene before it), appends exactly one shape of the configured kind
\* with w = shapeW, h = shapeH, x = pt.x - shapeW/2, y = pt.y - shapeH/2 as
\* the last element, and selects it.
C19_ShapeInsert ==
  [][(app = "H" /\ tool = "shape" /\ lastOp' = "down")
     => /\ history' = Append(history, objects)
        /\ Len(objects') = Len(objects) + 1
        /\ Front(objects') = objects
        /\ Last(objects').type = "shape"
        /\ Last(objects').shape = ShapeType
        /\ Last(objects').w = ShapeW /\ Last(objects').h = ShapeH
        /\ 2 * Last(objects').x = 2 * start'.x - ShapeW
        /\ 2 * Last(objects').y = 2 * start'.y - ShapeH
        /\ selected' = Len(objects') - 1]_vars
\* a second shape inserted at (100,60) and selected
C19_Witness ==
  /\ app = "H" /\ lastOp = "down" /\ tool = "shape"
  /\ Len(objects) = 2 /\ Len(history) = 2 /\ selected = 1
  /\ start = Pt(100, 60) /\ Last(objects).x = 50 /\ Last(objects).y = 30
  /\ Last(objects).w = ShapeW /\ Last(objects).h = ShapeH

\* C20: in the first DrawingApp, drawObject paints every path with the eraser
\* flag as a surface-clearing stroke (composite mode destination-out), never
\* as an opaque white stroke.
C20_EraserClearsSurface ==
  app = "A" =>
    \A i \in 1..Len(objects) :
      (objects[i].type = "path" /\ objects[i].isEraser)
      => /\ drawObject(objects[i]).globalCompositeOperation = "destination-out"
         /\ drawObject(objects[i]).style # "#fff"

\* C21: the two paints of a commit of Home, made with unchanged objects and
\* selected, issue the same paint operations with the same effective settings
\* (alpha, composite mode, line dash, line cap, styles): no setting left by
\* the paint before alters a paint
C21_RedrawIdempotent ==
  [][(app = "H" /\ <<objects', selected', tool'>> # <<objects, selected, tool>>)
       => firstPaint(objects', selected').ops = secondPaint(objects', selected').ops]_vars

\* the characters a text keeps when cut to n of them
Cut(text, n) == SubSeq(text, 1, Min2(n, Len(text)))
\* w = text.length * (size*2 + 8), h = size*4 + 12, x = obj.x, y = obj.y - size*4
TextBox(obj) ==
  [x |-> obj.x, y |-> obj.y - 4 * obj.size,
   w |-> Len(obj.text) * (2 * obj.size + 8), h |-> 4 * obj.size + 12]

\* C22: the bounding box of every text of the scene, wherever it was dragged,
\* is the one of the formula, and so it is for the same text in every size
\* from 0 and cut to every length from 0
C22_TextBox ==
  \A i \in 1..Len(objects) :
    objects[i].type = "text" =>
      /\ getBoundingBox(objects[i]) = TextBox(objects[i])
      /\ \A s \in 0..2, n \in 0..Len(objects[i].text) :
           LET o == [objects[i] EXCEPT !.size = s, !.text = Cut(objects[i].text, n)]
           IN getBoundingBox(o) = TextBox(o)
\* a text of three characters in size 30 was selected through its box and dragged
C22_Witness ==
  /\ lastOp = "move" /\ selected = 0 /\ dragStart # <<>>
  /\ objects[1].type = "text" /\ objects[1].size = 30 /\ Len(objects[1].text) = 3
  /\ gesture.phase = "active" /\ objects # gesture.objs

\* C23: in the first DrawingApp a pointer-up that ends a select-tool gesture
\* leaves objects, the undo stack and the redo stack as they were
C23_SelectUpFrame ==
  [][(app = "A" /\ lastOp' = "up" /\ tool = "select" /\ gesture.phase = "active")
       => UNCHANGED <<objects, history, redoStack>>]_vars

\* C24: in the second DrawingApp every step that commits an object to the
\* scene finds on top of the undo stack the scene without that object, so
\* that the next undo removes that object and nothing else
C24_CommitAfterPush ==
  [][(app = "B" /\ AppendStep) => (history' # <<>> /\ Last(history') = objects)]_vars

\* the resize branch of handlePointerMove is taken
Resizing == resizeHandle # Null /\ selected # Null /\ IsShapeAt(objects, selected)

\* C25: in Home a pointer-move taking the pencil/eraser branch keeps the
\* length of objects and every element but the last, changes the last element,
\* when it is a path, by one point appended to its points and nothing else,
\* and leaves the undo and redo stacks alone
C25_MoveGrowsLast ==
  [][(app = "H" /\ lastOp' = "move" /\ drawing /\ ~Resizing
        /\ tool \in {"pencil", "eraser"})
       => /\ Len(objects') = Len(objects)
          /\ \A i \in 1..(Len(objects) - 1) : objects'[i] = objects[i]
          /\ objects # <<>> =>
               IF Last(objects).type = "path"
               THEN \E p \in PtsH :
                      Last(objects') =
                        [Last(objects) EXCEPT !.points = Append(Last(objects).points, p)]
               ELSE Last(objects') = Last(objects)
          /\ UNCHANGED <<history, redoStack>>]_vars
\* a stroke of three points on top of an older object, a snapshot stored
C25_Witness ==
  /\ app = "H" /\ lastOp = "move" /\ drawing /\ tool \in {"pencil", "eraser"}
  /\ Len(objects) >= 2 /\ Last(objects).type = "path"
  /\ Len(Last(objects).points) = 3
  /\ Len(history) >= 2

\* C26: in the first DrawingApp and in Home a step changes the undo stack and
\* the redo stack at their tops only: every snapshot that stays on a stack is
\* the one it was, and a snapshot pushed is the scene of that moment
C26_SnapshotIsolation ==
  [][(app \in {"A", "H"}) =>
       /\ \A i \in 1..Min2(Len(history), Len(history')) : history'[i] = history[i]
       /\ \A j \in 0..(Min2(Len(redoStack), Len(redoStack')) - 1) :
            redoStack'[Len(redoStack') - j] = redoStack[Len(redoStack) - j]
       /\ Len(history') > Len(history) =>
            (Len(history') = Len(history) + 1 /\ Last(history') = objects)
       /\ Len(redoStack') > Len(redoStack) =>
            (Len(redoStack') = Len(redoStack) + 1 /\ Head(redoStack') = objects)]_vars
\* an object is dragged away from the position the snapshot on top of the
\* undo stack holds it at
C26_Witness ==
  /\ lastOp = "move" /\ gesture.phase = "active"
  /\ Len(history) >= 2 /\ Last(history) # <<>>
  /\ Last(history) = gesture.objs
  /\ Len(objects) = Len(gesture.objs) /\ objects # gesture.objs

\* C27: while a select-tool gesture that grabbed a shape at p0 lasts, in the
\* first DrawingApp and in the older DrawingApp alike, the origin of the shape
\* is its origin at the pointer-down plus (pn - p0), pn the last pointer
\* position, nothing else of the shape changed, and the other objects are the
\* ones of the pointer-down
C27_DragDisplacement ==
  (/\ app \in {"A", "D"} /\ gesture.phase = "active" /\ selected # Null
   /\ InRange(gesture.objs, selected)
   /\ At(gesture.objs, selected).type = "shape")
    => LET p0 == gesture.pts[1]
           pn == Last(gesture.pts)
           o0 == At(gesture.objs, selected)
       IN /\ Len(objects) = Len(gesture.objs)
          /\ \A i \in 1..Len(objects) :
               i - 1 # selected => objects[i] = gesture.objs[i]
          /\ At(objects, selected) =
               [o0 EXCEPT !.x = o0.x + pn.x - p0.x, !.y = o0.y + pn.y - p0.y]
\* three moves after the grab, the last one off every object, beside an
\* object that stayed
C27_Witness ==
  /\ gesture.phase = "active" /\ selected # Null /\ lastOp = "move"
  /\ Len(gesture.pts) = 4 /\ Last(gesture.pts) = Pt(-20, 200)
  /\ gesture.pts[2] # gesture.pts[1] /\ gesture.pts[3] # gesture.pts[2]
  /\ Len(objects) = 2
  /\ At(objects, selected).type = "shape"
  /\ At(objects, selected) # At(gesture.objs, selected)

\* C28: in the first DrawingApp every pointer-up, whatever the tool is by
\* then, leaves the gesture state idle: drawing false, dragStart and
\* lineStart null
C28_IdleAfterUp ==
  [][(app = "A" /\ lastOp' = "up")
       => (drawing' = FALSE /\ dragStart' = <<>> /\ lineStart' = <<>>)]_vars

\* C29: in Home, selected is null or an index of objects
C29_HomeSelectedValid ==
  app = "H" => (selected = Null \/ InRange(objects, selected))

\* the selected shape, the upper of two objects, was deleted
C29_Witness ==
  /\ app = "H" /\ lastOp = "delete" /\ selected = Null
  /\ Len(objects) = 1 /\ history # <<>>
  /\ Len(Last(history)) = 2 /\ Last(history)[1] = objects[1]
  /\ Last(history)[2].type = "shape"

\* C30: in the first DrawingApp every element of objects is an object of one
\* of the four kinds, never undefined
C30_WellFormedObjects ==
  app = "A" =>
    \A i \in 1..Len(objects) : objects[i].type \in {"path", "line", "shape", "text"}

\* C31: in Home a pointer-move of a pencil/eraser gesture adds a point only to
\* the path appended by the pointer-down of that gesture: the scene it
\* changes is the scene of the pointer-down with that one path after it
C31_OwnPathOnly ==
  [][(app = "H" /\ lastOp' = "move" /\ tool \in {"pencil", "eraser"}
        /\ objects' # objects)
       => (/\ gesture.phase = "active"
           /\ Len(objects) = Len(gesture.objs) + 1
           /\ Front(objects) = gesture.objs)]_vars

\* the select branch of handlePointerMove is taken on an object of the scene
Dragging ==
  /\ drawing /\ ~Resizing /\ tool = "select"
  /\ selected # Null /\ InRange(objects, selected)

\* C32: in Home two select-drag pointer-moves handled before the component
\* renders again displace the selected object by the last position minus
\* start, as two pointer-moves with a render between them do
C32_BatchedDrag ==
  [][(app = "H" /\ lastOp' = "moves" /\ Dragging)
       => At(objects', selected) =
            dragObject(At(objects, selected), start'.x - start.x, start'.y - start.y)]_vars

\* C33: in the first DrawingApp and in Home, a redo right after an undo that
\* found a snapshot, and an undo right after a redo that found one, leave
\* objects and the two stacks as they were before the pair; every undo and
\* every redo keeps the number of snapshots on the two stacks together
C33_UndoRedoInverse ==
  [][/\ lastOp' \in {"undo", "redo"}
          => Len(history') + Len(redoStack') = Len(history) + Len(redoStack)
     /\ gesture'.phase \in {"undo-redo", "redo-undo"}
          => <<objects', history', redoStack'>> =
               <<gesture'.objs, gesture'.hist, gesture'.redo>>]_vars
\* the second of two undos was redone: a snapshot was left on each stack
C33_Witness ==
  /\ gesture.phase = "undo-redo" /\ lastOp = "redo"
  /\ objects # <<>> /\ redoStack # <<>> /\ history # <<>>
  /\ Len(Head(redoStack)) > Len(objects)

\* C34: in Home, Delete with selected = i removes the element at index i and
\* no other, keeps the order of the rest, clears the selection and pushes one
\* snapshot, the scene before it, so that the undo called next puts the
\* deleted object back at index i; Delete with no selection changes neither
\* objects nor the stacks
C34_DeleteOne ==
  [][/\ (app = "H" /\ lastOp' = "delete" /\ selected # Null)
          => /\ Len(objects') = Len(objects) - 1
             /\ \A k \in 1..Len(objects') :
                  objects'[k] = IF k - 1 < selected THEN objects[k] ELSE objects[k + 1]
             /\ selected' = Null
             /\ history' = Append(history, objects)
     /\ (app = "H" /\ lastOp' = "delete" /\ selected = Null)
          => UNCHANGED <<objects, history, redoStack>>
     /\ (app = "H" /\ lastOp = "delete" /\ lastOp' = "undo" /\ history # <<>>
           /\ Len(Last(history)) = Len(objects) + 1)
          => /\ objects' = Last(history)
             /\ \E i \in 0..Len(objects) :
                  /\ objects = SubSeq(objects', 1, i) \o SubSeq(objects', i + 2, Len(objects'))
                  /\ history' = Front(history)]_vars
\* the lower of two different shapes was deleted and the undo put it back
\* under the other
C34_Witness ==
  /\ app = "H" /\ lastOp = "undo" /\ Len(objects) = 2 /\ redoStack # <<>>
  /\ objects[1] # objects[2]
  /\ Head(redoStack) = <<objects[2]>>
  /\ selected = Null

\* a and b hold the same elements the same number of times
SameBag(a, b) ==
  /\ Len(a) = Len(b)
  /\ \A k \in 1..Len(a) :
       Cardinality({j \in 1..Len(a) : a[j] = a[k]}) =
         Cardinality({j \in 1..Len(b) : b[j] = a[k]})
\* objs with the elements at the 0-based indices i and j exchanged
Swapped(objs, i, j) ==
  [k \in 1..Len(objs) |->
     IF k - 1 = i THEN At(objs, j) ELSE IF k - 1 = j THEN At(objs, i) ELSE objs[k]]

\* C35: in Home, Bring Forward with selected = i below the top exchanges the
\* elements i and i+1 and selects i+1, Send Backward with selected = i above
\* 0 exchanges the elements i and i-1 and selects i-1: the selected object
\* and the multiset of objects stay; Send Backward right after such a Bring
\* Forward restores order and selection; at the top, at index 0 and with no
\* selection they change nothing and push no snapshot
C35_LayerSwap ==
  [][/\ (app = "H" /\ lastOp' = "front" /\ selected # Null
           /\ selected < Len(objects) - 1)
          => /\ objects' = Swapped(objects, selected, selected + 1)
             /\ selected' = selected + 1
             /\ At(objects', selected') = At(objects, selected)
             /\ SameBag(objects', objects)
             /\ history' = Append(history, objects)
     /\ (app = "H" /\ lastOp' = "back" /\ selected # Null /\ selected > 0)
          => /\ objects' = Swapped(objects, selected, selected - 1)
             /\ selected' = selected - 1
             /\ At(objects', selected') = At(objects, selected)
             /\ SameBag(objects', objects)
             /\ history' = Append(history, objects)
     /\ (app = "H" /\ lastOp = "front" /\ lastOp' = "back" /\ history # <<>>
           /\ selected # Null /\ selected > 0
           /\ Len(Last(history)) = Len(objects)
           /\ objects = Swapped(Last(history), selected - 1, selected))
          => (objects' = Last(history) /\ selected' = selected - 1)
     /\ (app = "H" /\ \/ lastOp' = "front" /\ (selected = Null \/ selected = Len(objects) - 1)
                      \/ lastOp' = "back" /\ (selected = Null \/ selected = 0))
          => UNCHANGED <<objects, selected, history, redoStack>>]_vars
\* the lower of two different objects was brought forward and sent back
C35_Witness ==
  /\ app = "H" /\ lastOp = "back" /\ selected = 0 /\ Len(objects) = 2
  /\ objects[1] # objects[2]
  /\ Len(history) >= 2
  /\ Last(history) = <<objects[2], objects[1]>>
  /\ history[Len(history) - 1] = objects

\* C36: in Home, Clear leaves objects empty and selected null, pushes exactly
\* one snapshot, the scene before the clear, and empties the redo stack; the
\* undo called right after a Clear restores the whole previous list in its
\* order and leaves the history as it was before the Clear
C36_ClearUndo ==
  [][/\ (app = "H" /\ lastOp' = "clear")
          => /\ objects' = <<>>
             /\ selected' = Null
             /\ history' = Append(history, objects)
             /\ redoStack' = <<>>
     /\ (app = "H" /\ lastOp = "clear" /\ lastOp' = "undo")
          => /\ history # <<>>
             /\ objects' = Last(history)
             /\ history' = Front(history)
             /\ redoStack' = <<objects>>
             /\ selected' = Null]_vars
\* a scene of two different objects was cleared and the undo brought both
\* back in their order
C36_Witness ==
  /\ app = "H" /\ lastOp = "undo" /\ Len(objects) = 2
  /\ objects[1] # objects[2]
  /\ redoStack = <<(<<>>)>>
  /\ Len(history) = 2 /\ history[2] = <<objects[1]>>
  /\ selected = Null

\* C37: in the second DrawingApp every shape committed by a shape-tool
\* gesture has w > 0 and h > 0, whatever the positions of the pointer-down
\* and of the pointer-up
C37_PositiveShape ==
  app = "B" =>
    \A k \in 1..Len(objects) :
      objects[k].type = "shape" => (objects[k].w > 0 /\ objects[k].h > 0)

====
